---- MODULE Spec2Model ----
(***************************************************************************)
(* Model of the console-call scanner of no_logs (src/src/scanner.ts) and    *)
(* of the removal of the calls it finds (src/unnamed/part_002).            *)
(*                                                                         *)
(* A source text is a sequence of one-character strings.  Offsets, token   *)
(* indices and line numbers are 0-based as in the TypeScript source; the   *)
(* helpers CharAt, Slice and TokAt translate to TLA+'s 1-based sequences.   *)
(***************************************************************************)
EXTENDS Integers, Sequences, FiniteSets, TLC

VARIABLES text, pc, i, line, tokens, fi, statements, result, error

\* processFile: the pass (1: first scan, 2: scan of the saved text), the
\* document opened, file.occurrences as stored, the sorted copy, the number
\* of occurrences handled, the edits queued, and the result of applyEdit
VARIABLES run, doc, stored, sorted, si, edits, applied

scanVars == <<text, pc, i, line, tokens, fi, statements, result, error>>

procVars == <<run, doc, stored, sorted, si, edits, applied>>

\* the extension host: which extension is installed (variant), the files of
\* the workspace, where the command invoked stands (hpc), the number of
\* commands invoked, the locals of the scan loops (withPreview, bi, findings,
\* total, processedFiles, skippedFiles, errors, reports, cancelled), the
\* module variable lastScan, the locals of the removal (pending, choice,
\* pfi, successfulRemovals, failedRemovals) and the files written
VARIABLES variant, files, hpc, ncmd, withPreview, bi, findings, total,
          processedFiles, skippedFiles, errors, reports, cancelled, lastScan,
          pending, choice, pfi, successfulRemovals, failedRemovals, written,
          selection, createBackups, backups

loopVars == <<bi, findings, total, processedFiles, skippedFiles, errors, reports>>

removalVars == <<pending, choice, pfi, successfulRemovals, failedRemovals>>

hostVars == <<variant, files, hpc, ncmd, withPreview, loopVars, cancelled,
              lastScan, removalVars, written, selection, createBackups, backups>>

\* the invocations of scanConsoleLogsInText that have returned, each with the
\* text it was given and the list it returned
VARIABLES calls

callVars == <<calls>>

\* the line cleaner of src/src/extension.ts: the setting removeComments,
\* where the work on the file content stands (cpc), what findSafeTargets
\* returned for it (targets) and what cleanContentUltraSafe returned (cleaned)
VARIABLES removeComments, cpc, targets, cleaned

cleanVars == <<removeComments, cpc, targets, cleaned>>

vars == <<scanVars, procVars, hostVars, callVars, cleanVars>>

\* what a step of the scanner leaves alone
scanFrame == <<procVars, hostVars, callVars, cleanVars>>

--------------------------------------------------------------------------
(* Bounds of the input space *)

MaxFrags == 3

--------------------------------------------------------------------------
(* JavaScript string primitives *)

Undefined == "undefined"

\* The backtick character, which a TLA+ string literal cannot contain
Backtick == "BACKTICK"

Min(a, b) == IF a < b THEN a ELSE b

Max(a, b) == IF a > b THEN a ELSE b

\* text[k] : the character at 0-based offset k, undefined past the end
CharAt(s, k) == IF k >= 0 /\ k < Len(s) THEN s[k + 1] ELSE Undefined

\* text.slice(a, b) : clamps both ends to the length of the string
Slice(s, a, b) == SubSeq(s, Min(Max(a, 0), Len(s)) + 1, Min(Max(b, 0), Len(s)))

\* /\s/ on the characters of the input alphabet
IsSpace(c) == c \in {" ", "\t", "\r", "\n"}

Letters ==
  {"a","b","c","d","e","f","g","h","i","j","k","l","m",
   "n","o","p","q","r","s","t","u","v","w","x","y","z",
   "A","B","C","D","E","F","G","H","I","J","K","L","M",
   "N","O","P","Q","R","S","T","U","V","W","X","Y","Z"}

Digits == {"0","1","2","3","4","5","6","7","8","9"}

\* /[a-zA-Z_$]/
IsIdentStart(c) == c \in Letters \cup {"_", "$"}

\* /[a-zA-Z0-9_$]/
IsIdentPart(c) == c \in Letters \cup Digits \cup {"_", "$"}

--------------------------------------------------------------------------
(* scanner.ts constants *)

CONSOLE == <<"c","o","n","s","o","l","e">>

CONSOLE_METHODS ==
  { <<"l","o","g">>,
    <<"e","r","r","o","r">>,
    <<"w","a","r","n">>,
    <<"i","n","f","o">>,
    <<"d","e","b","u","g">>,
    <<"t","r","a","c","e">>,
    <<"a","s","s","e","r","t">>,
    <<"d","i","r">>,
    <<"d","i","r","x","m","l">>,
    <<"g","r","o","u","p">>,
    <<"g","r","o","u","p","E","n","d">>,
    <<"g","r","o","u","p","C","o","l","l","a","p","s","e","d">>,
    <<"p","r","o","f","i","l","e">>,
    <<"p","r","o","f","i","l","e","E","n","d">>,
    <<"t","i","m","e">>,
    <<"t","i","m","e","E","n","d">>,
    <<"t","i","m","e","L","o","g">>,
    <<"t","i","m","e","S","t","a","m","p">>,
    <<"t","a","b","l","e">>,
    <<"c","o","u","n","t">>,
    <<"c","o","u","n","t","R","e","s","e","t">>,
    <<"c","l","e","a","r">> }

TokenTypes ==
  {"console", "method", "dot", "paren_open", "paren_close",
   "string", "template", "comment", "whitespace", "other"}

\* a TokenInfo object
Token(type, value, start, end, ln) ==
  [type |-> type, value |-> value, start |-> start, end |-> end, line |-> ln]

--------------------------------------------------------------------------
(* tokenizeCode: the inner scanning loops.  A loop state st holds the      *)
(* cursor i, the line counter, the template braceDepth and brk, which is   *)
(* TRUE once an iteration has left the loop with break.                    *)

LoopState(k, ln, braceDepth) ==
  [i |-> k, line |-> ln, braceDepth |-> braceDepth, brk |-> FALSE]

\* while (Cond) { Body }, run for at most m iterations from state st.  The
\* m iterations are run as two halves, one after the other, which keeps the
\* evaluation shallow; a loop that has been left stays left.  The state
\* between the halves is bound to its value, so it is computed once.
RECURSIVE WhileLoop(_, _, _, _, _)
WhileLoop(Cond(_, _), Body(_, _), s, m, st) ==
  IF st.brk \/ ~Cond(s, st) THEN st
  ELSE IF m <= 1 THEN Body(s, st)
  ELSE CHOOSE r \in { WhileLoop(Cond, Body, s, m - (m \div 2), mid) :
                        mid \in { WhileLoop(Cond, Body, s, m \div 2, st) } } : TRUE

\* every iteration of a scanning loop advances the cursor, so a loop over
\* the text s makes at most Len(s) iterations
While(Cond(_, _), Body(_, _), s, st) == WhileLoop(Cond, Body, s, Len(s), st)

\* i < text.length
InText(s, st) == st.i < Len(s)

\* i++
Advance(s, st) == [st EXCEPT !.i = @ + 1]

\* 1 if the character at offset k is a newline (line++), else 0
NewlineAt(s, k) == IF CharAt(s, k) = "\n" THEN 1 ELSE 0

\* while (i < text.length && /\s/.test(text[i]) && text[i] !== "\n") i++
WhitespaceCond(s, st) ==
  st.i < Len(s) /\ IsSpace(CharAt(s, st.i)) /\ CharAt(s, st.i) # "\n"

ScanWhitespace(s, k) == While(WhitespaceCond, Advance, s, LoopState(k, 0, 0)).i

\* while (i < text.length && text[i] !== "\n") i++
LineCommentCond(s, st) == st.i < Len(s) /\ CharAt(s, st.i) # "\n"

ScanLineComment(s, k) == While(LineCommentCond, Advance, s, LoopState(k, 0, 0)).i

\* body of the /* comment loop
BlockCommentBody(s, st) ==
  LET ln2 == st.line + NewlineAt(s, st.i)
  IN  IF CharAt(s, st.i) = "*" /\ CharAt(s, st.i + 1) = "/"
      THEN [st EXCEPT !.line = ln2, !.i = @ + 2, !.brk = TRUE]
      ELSE [st EXCEPT !.line = ln2, !.i = @ + 1]

\* the /* comment loop, entered after the two opening characters
ScanBlockComment(s, k, ln) == While(InText, BlockCommentBody, s, LoopState(k, ln, 0))

\* a backslash is a character like any other
QuotedBody_NoEscape(s, st, q) ==
  LET ln2 == st.line + NewlineAt(s, st.i)
  IN  IF CharAt(s, st.i) = q
      THEN [st EXCEPT !.line = ln2, !.i = @ + 1, !.brk = TRUE]
      ELSE [st EXCEPT !.line = ln2, !.i = @ + 1]

\* body of a quoted-string loop for the quote character q
QuotedBody(s, st, q) ==
  LET ln2 == st.line + NewlineAt(s, st.i)
  IN  IF CharAt(s, st.i) = "\\"
      THEN [st EXCEPT !.line = ln2, !.i = @ + 2]
      ELSE IF CharAt(s, st.i) = q
           THEN [st EXCEPT !.line = ln2, !.i = @ + 1, !.brk = TRUE]
           ELSE [st EXCEPT !.line = ln2, !.i = @ + 1]

\* a raw newline ends the string like the closing quote does
SingleQuotedBody_NewlineEnds(s, st) ==
  IF CharAt(s, st.i) = "\n"
  THEN [st EXCEPT !.line = @ + 1, !.i = @ + 1, !.brk = TRUE]
  ELSE QuotedBody(s, st, "'")

SingleQuotedBody(s, st) == QuotedBody(s, st, "'")

DoubleQuotedBody(s, st) == QuotedBody(s, st, "\"")

\* the string loops, entered after the opening quote
ScanSingleQuoted(s, k, ln) == While(InText, SingleQuotedBody, s, LoopState(k, ln, 0))

ScanDoubleQuoted(s, k, ln) == While(InText, DoubleQuotedBody, s, LoopState(k, ln, 0))

\* a backtick closes the template whatever the depth
TemplateBody_AnyBacktick(s, st) ==
  LET ln2 == st.line + NewlineAt(s, st.i)
  IN  IF CharAt(s, st.i) = "\\"
        THEN [st EXCEPT !.line = ln2, !.i = @ + 2]
      ELSE IF CharAt(s, st.i) = "$" /\ CharAt(s, st.i + 1) = "{"
        THEN [st EXCEPT !.line = ln2, !.braceDepth = @ + 1, !.i = @ + 2]
      ELSE IF CharAt(s, st.i) = "}" /\ st.braceDepth > 0
        THEN [st EXCEPT !.line = ln2, !.braceDepth = @ - 1, !.i = @ + 1]
      ELSE IF CharAt(s, st.i) = Backtick
        THEN [st EXCEPT !.line = ln2, !.i = @ + 1, !.brk = TRUE]
      ELSE [st EXCEPT !.line = ln2, !.i = @ + 1]

\* body of the template-literal loop
TemplateBody(s, st) ==
  LET ln2 == st.line + NewlineAt(s, st.i)
  IN  IF CharAt(s, st.i) = "\\"
        THEN [st EXCEPT !.line = ln2, !.i = @ + 2]
      ELSE IF CharAt(s, st.i) = "$" /\ CharAt(s, st.i + 1) = "{"
        THEN [st EXCEPT !.line = ln2, !.braceDepth = @ + 1, !.i = @ + 2]
      ELSE IF CharAt(s, st.i) = "}" /\ st.braceDepth > 0
        THEN [st EXCEPT !.line = ln2, !.braceDepth = @ - 1, !.i = @ + 1]
      ELSE IF CharAt(s, st.i) = Backtick /\ st.braceDepth = 0
        THEN [st EXCEPT !.line = ln2, !.i = @ + 1, !.brk = TRUE]
      ELSE [st EXCEPT !.line = ln2, !.i = @ + 1]

\* the template-literal loop, entered after the opening backtick
ScanTemplate(s, k, ln) == While(InText, TemplateBody, s, LoopState(k, ln, 0))

\* a digit ends the identifier
IdentCond_NoDigits(s, st) == st.i < Len(s) /\ IsIdentStart(CharAt(s, st.i))

\* while (i < text.length && /[a-zA-Z0-9_$]/.test(text[i])) i++
IdentCond(s, st) == st.i < Len(s) /\ IsIdentPart(CharAt(s, st.i))

ScanIdent(s, k) == While(IdentCond, Advance, s, LoopState(k, 0, 0)).i

\* the allow-list is not consulted: every other identifier is a method
IdentType_AnyMethod(value) == IF value = CONSOLE THEN "console" ELSE "method"

\* value === "console" ? "console" : CONSOLE_METHODS.has(value) ? "method" : "other"
IdentType(value) ==
  IF value = CONSOLE THEN "console"
  ELSE IF value \in CONSOLE_METHODS THEN "method"
  ELSE "other"

\* The branches of the main loop of tokenizeCode at cursor k: each yields
\* the token pushed, and the cursor and line counter after the iteration.

\* the i++ after the push is missing
SingleCharToken_NoAdvance(type, value, k, ln) ==
  [tok |-> Token(type, value, k, k + 1, ln), i |-> k, line |-> ln]

\* a one-character token whose value is written as a literal
SingleCharToken(type, value, k, ln) ==
  [tok |-> Token(type, value, k, k + 1, ln), i |-> k + 1, line |-> ln]

\* a token from start to the cursor k2, with value text.slice(start, i)
RunToken(type, s, start, k2, startLine, ln2) ==
  [tok |-> Token(type, Slice(s, start, k2), start, k2, startLine),
   i |-> k2, line |-> ln2]

\* the i++ after the push of the newline token is missing
NewlineToken_NoAdvance(s, k, ln) ==
  [tok |-> Token("whitespace", <<"\n">>, k, k + 1, ln),
   i |-> k, line |-> ln + 1]

NewlineToken(s, k, ln) ==
  [tok |-> Token("whitespace", <<"\n">>, k, k + 1, ln),
   i |-> k + 1, line |-> ln + 1]

WhitespaceToken(s, k, ln) ==
  RunToken("whitespace", s, k, ScanWhitespace(s, k), ln, ln)

LineCommentToken(s, k, ln) ==
  RunToken("comment", s, k, ScanLineComment(s, k + 2), ln, ln)

\* the search for the closing */ starts at the * of the opener
BlockCommentToken_SelfClose(s, k, ln) ==
  LET r == ScanBlockComment(s, k + 1, ln)
  IN  RunToken("comment", s, k, r.i, ln, r.line)

BlockCommentToken(s, k, ln) ==
  LET r == ScanBlockComment(s, k + 2, ln)
  IN  RunToken("comment", s, k, r.i, ln, r.line)

\* const start = i taken after the opening quote was skipped
SingleQuotedToken_LateStart(s, k, ln) ==
  LET r == ScanSingleQuoted(s, k + 1, ln)
  IN  RunToken("string", s, k + 1, r.i, ln, r.line)

SingleQuotedToken(s, k, ln) ==
  LET r == ScanSingleQuoted(s, k + 1, ln)
  IN  RunToken("string", s, k, r.i, ln, r.line)

DoubleQuotedToken(s, k, ln) ==
  LET r == ScanDoubleQuoted(s, k + 1, ln)
  IN  RunToken("string", s, k, r.i, ln, r.line)

TemplateToken(s, k, ln) ==
  LET r == ScanTemplate(s, k + 1, ln)
  IN  RunToken("template", s, k, r.i, ln, r.line)

IdentifierToken(s, k, ln) ==
  LET k2 == ScanIdent(s, k)
  IN  RunToken(IdentType(Slice(s, k, k2)), s, k, k2, ln, ln)

\* One iteration of the main loop of tokenizeCode at cursor k (k < length)
TokenizeIter(s, k, ln) ==
  LET char == CharAt(s, k)
  IN  IF char = "\n" THEN NewlineToken(s, k, ln)
      ELSE IF IsSpace(char) THEN WhitespaceToken(s, k, ln)
      ELSE IF char = "/" /\ CharAt(s, k + 1) = "/" THEN LineCommentToken(s, k, ln)
      ELSE IF char = "/" /\ CharAt(s, k + 1) = "*" THEN BlockCommentToken(s, k, ln)
      ELSE IF char = "'" THEN SingleQuotedToken(s, k, ln)
      ELSE IF char = "\"" THEN DoubleQuotedToken(s, k, ln)
      ELSE IF char = Backtick THEN TemplateToken(s, k, ln)
      ELSE IF char = "(" THEN SingleCharToken("paren_open", <<"(">>, k, ln)
      ELSE IF char = ")" THEN SingleCharToken("paren_close", <<")">>, k, ln)
      ELSE IF char = "." THEN SingleCharToken("dot", <<".">>, k, ln)
      ELSE IF IsIdentStart(char) THEN IdentifierToken(s, k, ln)
      ELSE SingleCharToken("other", <<char>>, k, ln)

--------------------------------------------------------------------------
(* findConsoleStatements and its helpers.  Token indices are 0-based.      *)

\* tokens[j]
TokAt(toks, j) == toks[j + 1]

\* tokens[j] is an element of the array (a property read on it cannot throw)
HasTok(toks, j) == j >= 0 /\ j < Len(toks)

\* for (let j = fromIndex; j < tokens.length; j++)
InTokens(toks, st) == st.i < Len(toks)

\* a comment token is returned like any token that is not whitespace
NonTrivialBody_CommentsCount(toks, st) ==
  IF TokAt(toks, st.i).type # "whitespace"
  THEN [st EXCEPT !.brk = TRUE]
  ELSE [st EXCEPT !.i = @ + 1]

\* body of the loop of nextNonTrivialTokenIndex: return j (leaving the
\* loop at j) when tokens[j] is neither whitespace nor comment
NonTrivialBody(toks, st) ==
  IF /\ TokAt(toks, st.i).type # "whitespace"
     /\ TokAt(toks, st.i).type # "comment"
  THEN [st EXCEPT !.brk = TRUE]
  ELSE [st EXCEPT !.i = @ + 1]

\* index of the first token at or after fromIndex that is neither
\* whitespace nor comment, -1 if none
nextNonTrivialTokenIndex(toks, fromIndex) ==
  LET st == While(InTokens, NonTrivialBody, toks, LoopState(fromIndex, 0, 0))
  IN  IF st.brk THEN st.i ELSE -1

\* depth++ is missing: every ")" is taken to close the innermost "("
MatchingParenBody_NoNesting(toks, st) ==
  IF TokAt(toks, st.i).type = "paren_close"
  THEN [st EXCEPT !.brk = TRUE]
  ELSE [st EXCEPT !.i = @ + 1]

\* body of the loop of findMatchingParen; st.depth is the current depth
MatchingParenBody(toks, st) ==
  LET type == TokAt(toks, st.i).type
  IN  IF type \in {"string", "template", "comment"}
        THEN [st EXCEPT !.i = @ + 1]
      ELSE IF type = "paren_open"
        THEN [st EXCEPT !.depth = @ + 1, !.i = @ + 1]
      ELSE IF type = "paren_close"
        THEN IF st.depth - 1 = 0
             THEN [st EXCEPT !.depth = @ - 1, !.brk = TRUE]
             ELSE [st EXCEPT !.depth = @ - 1, !.i = @ + 1]
      ELSE [st EXCEPT !.i = @ + 1]

\* the end of input closes an unmatched parenthesis
findMatchingParen_EndCloses(toks, openParenIndex) ==
  LET st == While(InTokens, MatchingParenBody, toks,
                  [i |-> openParenIndex + 1, depth |-> 1, brk |-> FALSE])
  IN  IF st.brk THEN st.i ELSE Len(toks) - 1

\* index of the paren_close token that matches the paren_open token at
\* openParenIndex, -1 if none
findMatchingParen(toks, openParenIndex) ==
  LET st == While(InTokens, MatchingParenBody, toks,
                  [i |-> openParenIndex + 1, depth |-> 1, brk |-> FALSE])
  IN  IF st.brk THEN st.i ELSE -1

\* the trailing ";" is never absorbed
EndPos_NoAbsorb(toks, closingParenIdx) == TokAt(toks, closingParenIdx).end

\* endPos of a statement whose call closes at token closingParenIdx
EndPos(toks, closingParenIdx) ==
  LET afterIdx == nextNonTrivialTokenIndex(toks, closingParenIdx + 1)
  IN  IF afterIdx # -1 /\ TokAt(toks, afterIdx).value = <<";">>
      THEN TokAt(toks, afterIdx).end
      ELSE TokAt(toks, closingParenIdx).end

\* the statement is not skipped: the loop goes on at the token after the
\* receiver
ResumeIndex_NoSkip(j, closingParenIdx) == j

\* i = closingParenIdx: the value of i after a statement has been pushed
ResumeIndex(j, closingParenIdx) == closingParenIdx

\* One iteration of the for loop of findConsoleStatements at token index j:
\* the statement pushed (if any) and the index after the loop's own i++.
\* threw: the iteration read a property of a missing array element, which
\* raises a TypeError.
FindIter(toks, j) ==
  LET current  == TokAt(toks, j)
      dotIdx    == nextNonTrivialTokenIndex(toks, j + 1)
      methodIdx == nextNonTrivialTokenIndex(toks, dotIdx + 1)
      parenIdx  == nextNonTrivialTokenIndex(toks, methodIdx + 1)
      closingParenIdx == findMatchingParen(toks, parenIdx)
      Skip  == [found |-> FALSE, threw |-> FALSE, next |-> j + 1]
      Throw == [found |-> FALSE, threw |-> TRUE, next |-> j + 1]
  IN  IF current.type # "console" THEN Skip
      ELSE IF dotIdx = -1 THEN Skip
      ELSE IF ~HasTok(toks, dotIdx) THEN Throw
      ELSE IF TokAt(toks, dotIdx).type # "dot" THEN Skip
      ELSE IF methodIdx = -1 THEN Skip
      ELSE IF ~HasTok(toks, methodIdx) THEN Throw
      ELSE IF TokAt(toks, methodIdx).type # "method" THEN Skip
      ELSE IF parenIdx = -1 THEN Skip
      ELSE IF ~HasTok(toks, parenIdx) THEN Throw
      ELSE IF TokAt(toks, parenIdx).type # "paren_open" THEN Skip
      ELSE IF closingParenIdx = -1 THEN Skip
      ELSE IF ~HasTok(toks, closingParenIdx) THEN Throw
      ELSE [found |-> TRUE, threw |-> FALSE,
            stmt  |-> [start  |-> current.start,
                       end    |-> EndPos(toks, closingParenIdx),
                       method |-> TokAt(toks, methodIdx).value,
                       line   |-> current.line],
            next  |-> ResumeIndex(j, closingParenIdx) + 1]

--------------------------------------------------------------------------
(* generatePreview and the mapping of scanConsoleLogsInText *)

PreviewMax == 100

\* preview.replace(/\s+/g, " "): every maximal run of white space becomes
\* one blank.  Kept are the positions that do not continue a run.
CollapseSpaces(s) ==
  LET kept == {p \in 1..Len(s) : ~IsSpace(s[p]) \/ p = 1 \/ ~IsSpace(s[p - 1])}
      Nth(q) == CHOOSE p \in kept : Cardinality({r \in kept : r <= p}) = q
  IN  [q \in 1..Cardinality(kept) |->
         IF IsSpace(s[Nth(q)]) THEN " " ELSE s[Nth(q)]]

\* preview.trim()
Trim(s) ==
  LET solid == {p \in 1..Len(s) : ~IsSpace(s[p])}
  IN  IF solid = {} THEN <<>>
      ELSE SubSeq(s, CHOOSE p \in solid : \A r \in solid : p <= r,
                     CHOOSE p \in solid : \A r \in solid : r <= p)

generatePreview(s, start, end) ==
  LET preview == Trim(CollapseSpaces(Slice(s, start, end)))
  IN  IF Len(preview) > PreviewMax
      THEN Slice(preview, 0, PreviewMax - 3) \o <<".", ".", ".">>
      ELSE preview

\* consoleStatements.map(stmt => ({ ... }))
Occurrence(s, stmt) ==
  [startIndex |-> stmt.start,
   endIndex   |-> stmt.end,
   startLine  |-> stmt.line,
   preview    |-> generatePreview(s, stmt.start, stmt.end),
   method     |-> stmt.method]

--------------------------------------------------------------------------
(* Input texts: concatenations of at most MaxFrags lexical fragments *)

Fragments ==
  { <<"c","o","n","s","o","l","e",".","l","o","g","(","x",")">>,
    <<"c","o","n","s","o","l","e",".","l","o","g","(">>,
    <<"c","o","n","s","o","l","e",".","f","o","o","(">>,
    <<")">>,
    <<";">>,
    <<" ">>,
    <<"\n">>,
    <<"'">>,
    <<"\"">>,
    <<"\\">>,
    <<Backtick>>,
    <<"$","{">>,
    <<"}">>,
    <<"/","*">>,
    <<"*","/">>,
    <<"/","/">>,
    <<"'",")","'">>,
    <<"'","\\","\n","'">>,
    <<Backtick,"$","{">>,
    <<"}",Backtick>> }

RECURSIVE Concat(_)
Concat(fs) == IF fs = <<>> THEN <<>> ELSE Head(fs) \o Concat(Tail(fs))

Inputs == { Concat(fs) : fs \in UNION { [1..n -> Fragments] : n \in 0..MaxFrags } }

--------------------------------------------------------------------------
(* scanConsoleLogsInText as a state machine: one step per iteration of the *)
(* tokenizer's main loop, one per iteration of the extractor's loop.       *)

\* the scanner at the entry of scanConsoleLogsInText
ScanInit ==
  /\ pc = "tokenize"
  /\ i = 0
  /\ line = 0
  /\ tokens = <<>>
  /\ fi = 0
  /\ statements = <<>>
  /\ result = <<>>
  /\ error = FALSE

\* no file is being processed
ProcInit ==
  /\ run = 1
  /\ doc = <<>>
  /\ stored = <<>>
  /\ sorted = <<>>
  /\ si = 0
  /\ edits = <<>>
  /\ applied = FALSE

\* the editor shows no selection the extension has set
NoSelection == [file |-> -1, item |-> -1]

\* no invocation has returned
NoCalls == calls = {}

\* what findSafeTargets returns when it finds nothing
NoTargets == [safeConsoleLogs |-> <<>>, safeComments |-> <<>>]

\* what cleanContentUltraSafe returns for the empty content
NothingCleaned == [content |-> <<>>, consoleLogsRemoved |-> 0, commentsRemoved |-> 0]

\* the line cleaner is not at work
CleanOff ==
  /\ removeComments = TRUE
  /\ cpc = "off"
  /\ targets = NoTargets
  /\ cleaned = NothingCleaned

\* no extension host is running
HostOff ==
  /\ variant = "none"
  /\ files = <<>>
  /\ hpc = "off"
  /\ ncmd = 0
  /\ withPreview = FALSE
  /\ bi = 0
  /\ findings = <<>>
  /\ total = 0
  /\ processedFiles = 0
  /\ skippedFiles = 0
  /\ errors = 0
  /\ reports = <<>>
  /\ cancelled = FALSE
  /\ lastScan = <<>>
  /\ pending = <<>>
  /\ choice = "none"
  /\ pfi = 0
  /\ successfulRemovals = 0
  /\ failedRemovals = 0
  /\ written = {}
  /\ selection = NoSelection
  /\ createBackups = TRUE
  /\ backups = {}

Init ==
  /\ text \in Inputs
  /\ ScanInit
  /\ ProcInit
  /\ HostOff
  /\ NoCalls
  /\ CleanOff

\* while (i < text.length) { ... }
TokenizeStep ==
  /\ pc = "tokenize"
  /\ i < Len(text)
  /\ LET r == TokenizeIter(text, i, line)
     IN  /\ tokens' = Append(tokens, r.tok)
         /\ i' = r.i
         /\ line' = r.line
  /\ UNCHANGED <<text, pc, fi, statements, result, error>>
  /\ UNCHANGED scanFrame

\* return tokens; findConsoleStatements starts with i = 0
TokenizeReturn ==
  /\ pc = "tokenize"
  /\ ~(i < Len(text))
  /\ pc' = "find"
  /\ fi' = 0
  /\ UNCHANGED <<text, i, line, tokens, statements, result, error>>
  /\ UNCHANGED scanFrame

\* for (let i = 0; i < tokens.length; i++) { ... }; a TypeError raised by
\* the body is caught by scanConsoleLogsInText, which returns []
FindStep ==
  /\ pc = "find"
  /\ fi < Len(tokens)
  /\ LET r == FindIter(tokens, fi)
     IN  IF r.threw
         THEN /\ error' = TRUE
              /\ result' = <<>>
              /\ pc' = "done"
              /\ UNCHANGED <<fi, statements>>
         ELSE /\ statements' = IF r.found THEN Append(statements, r.stmt)
                                          ELSE statements
              /\ fi' = r.next
              /\ UNCHANGED <<pc, result, error>>
  /\ UNCHANGED <<text, i, line, tokens>>
  /\ UNCHANGED scanFrame

\* return consoleStatements.map(...)
ScanReturn ==
  /\ pc = "find"
  /\ ~(fi < Len(tokens))
  /\ result' = [k \in 1..Len(statements) |-> Occurrence(text, statements[k])]
  /\ pc' = "done"
  /\ UNCHANGED <<text, i, line, tokens, fi, statements, error>>
  /\ UNCHANGED scanFrame

Next == TokenizeStep \/ TokenizeReturn \/ FindStep \/ ScanReturn

Spec == Init /\ [][Next]_vars

--------------------------------------------------------------------------
(* Properties of the token list returned by tokenizeCode *)

\* tokenizeCode has returned: the token list is complete
Tokenized == pc # "tokenize"

\* the values of tokens a..b (1-based), concatenated in order
RECURSIVE ConcatRange(_, _, _)
ConcatRange(toks, a, b) ==
  IF a > b THEN <<>>
  ELSE IF a = b THEN toks[a].value
  ELSE ConcatRange(toks, a, (a + b) \div 2)
         \o ConcatRange(toks, (a + b) \div 2 + 1, b)

ConcatValues(toks) == ConcatRange(toks, 1, Len(toks))

LastToken == tokens[Len(tokens)]

\* C1 - Losslessness: the values of the tokens returned by tokenizeCode,
\* concatenated in order, are exactly the input text.
C1_Lossless == Tokenized => ConcatValues(tokens) = text

\* the input ends inside an unterminated string, template or comment whose
\* last character is a backslash the scanner skipped over
C1_Witness ==
  /\ Tokenized
  /\ tokens # <<>>
  /\ LastToken.type \in {"string", "template"}
  /\ LastToken.end > Len(text)
  /\ text[Len(text)] = "\\"

\* C2 - Contiguity: the returned tokens are contiguous, non-empty half-open
\* ranges [start, end) into the text, the first starting at 0 and the last
\* ending at length(text), each with value = text[start, end).
C2_Contiguous ==
  Tokenized =>
    /\ (text # <<>>) => (tokens # <<>>)
    /\ (tokens # <<>>) => (tokens[1].start = 0 /\ LastToken.end = Len(text))
    /\ \A k \in 1..Len(tokens) :
         /\ 0 <= tokens[k].start
         /\ tokens[k].start < tokens[k].end
         /\ tokens[k].end <= Len(text)
         /\ tokens[k].value = SubSeq(text, tokens[k].start + 1, tokens[k].end)
         /\ (k > 1) => (tokens[k].start = tokens[k - 1].end)

--------------------------------------------------------------------------
(* Properties of the occurrences returned by scanConsoleLogsInText *)

\* scanConsoleLogsInText has returned
Returned == pc = "done"

\* C3 - Non-overlap and source order: the occurrences are returned in
\* strictly ascending startIndex order and each one ends at or before the
\* start of the next.
C3_NonOverlap ==
  Returned =>
    \A k \in 1..(Len(result) - 1) :
      /\ result[k].startIndex < result[k + 1].startIndex
      /\ result[k].endIndex <= result[k + 1].startIndex

\* two occurrences, the earlier one having absorbed its trailing semicolon
C3_Witness ==
  /\ Returned
  /\ Len(result) >= 2
  /\ CharAt(text, result[1].endIndex - 1) = ";"
  /\ result[1].endIndex <= result[2].startIndex

\* number of newline characters in s before offset p
NewlinesBefore(s, p) == Cardinality({q \in 1..Min(p, Len(s)) : s[q] = "\n"})

\* C4 - Line numbers: every token's line is the number of newline
\* characters before the token's start offset, and every occurrence's
\* startLine is the number of newline characters before its startIndex.
C4_LineNumbers ==
  /\ Tokenized =>
       \A k \in 1..Len(tokens) :
         tokens[k].line = NewlinesBefore(text, tokens[k].start)
  /\ Returned =>
       \A k \in 1..Len(result) :
         result[k].startLine = NewlinesBefore(text, result[k].startIndex)

--------------------------------------------------------------------------
(* Reference lexical structure of a text, read one character at a time.    *)
(* Every character is labelled with the lexical element it belongs to:     *)
(* "code" is ordinary program text, "sq" and "dq" are quoted strings,      *)
(* "tpl" is the non-expression text of a template literal, "expr" a ${ }   *)
(* expression of a template literal, "line" and "block" are comments.      *)
(* Delimiters belong to the element they delimit; the newline that ends a  *)
(* line comment is program text.                                           *)

\* One step of the reference reader at offset k, in mode m at template
\* expression depth d: the number n of characters read (1 or 2), their
\* label, and the mode and depth in which the following character is read.
RefStep(s, k, m, d) ==
  LET c == CharAt(s, k)
      n == CharAt(s, k + 1)
      To(len, label, mode, depth) ==
        [n |-> len, label |-> label, m |-> mode, d |-> depth]
  IN  CASE m = "code" /\ c = "/" /\ n = "/"     -> To(2, "line", "line", 0)
        [] m = "code" /\ c = "/" /\ n = "*"     -> To(2, "block", "block", 0)
        [] m = "code" /\ c = "'"                -> To(1, "sq", "sq", 0)
        [] m = "code" /\ c = "\""               -> To(1, "dq", "dq", 0)
        [] m = "code" /\ c = Backtick           -> To(1, "tpl", "tpl", 0)
        [] m = "line" /\ c = "\n"               -> To(1, "code", "code", 0)
        [] m = "block" /\ c = "*" /\ n = "/"    -> To(2, "block", "code", 0)
        [] m \in {"sq", "dq"} /\ c = "\\"       -> To(2, m, m, 0)
        [] m = "sq" /\ c = "'"                  -> To(1, "sq", "code", 0)
        [] m = "dq" /\ c = "\""                 -> To(1, "dq", "code", 0)
        [] m \in {"tpl", "expr"} /\ c = "\\"    -> To(2, m, m, d)
        [] m \in {"tpl", "expr"} /\ c = "$" /\ n = "{"
                                                -> To(2, "expr", "expr", d + 1)
        [] m = "expr" /\ c = "}"
             -> To(1, "expr", IF d = 1 THEN "tpl" ELSE "expr", d - 1)
        [] m = "tpl" /\ c = Backtick            -> To(1, "tpl", "code", 0)
        [] OTHER                                -> To(1, m, m, d)

\* The reader's step at state st: the labels of the characters read are
\* appended to st.modes, and to st.bals the balance of the parentheses of
\* program text read so far ("(" counts +1, ")" counts -1).
RefBody(s, st) ==
  LET r    == RefStep(s, st.i, st.m, st.d)
      c    == CharAt(s, st.i)
      bal2 == IF r.label = "code" /\ c = "(" THEN st.bal + 1
              ELSE IF r.label = "code" /\ c = ")" THEN st.bal - 1
              ELSE st.bal
      len  == Min(r.n, Len(s) - st.i)
  IN  [i |-> st.i + r.n, m |-> r.m, d |-> r.d, brk |-> FALSE,
       modes |-> st.modes \o [q \in 1..len |-> r.label],
       bal |-> bal2,
       bals |-> st.bals \o [q \in 1..len |-> bal2]]

\* the reference reading of the whole text s
Ref(s) ==
  While(InText, RefBody, s,
        [i |-> 0, m |-> "code", d |-> 0, brk |-> FALSE,
         modes |-> <<>>, bal |-> 0, bals |-> <<>>])

\* the label of the character at offset p of s
ModeAt(s, p) == Ref(s).modes[p + 1]

ProtectedModes == {"sq", "dq", "tpl", "line", "block"}

CALL == <<"c","o","n","s","o","l","e",".","l","o","g","(","x",")">>

\* the text console.log(x) occurs in s at offset p
CallAt(s, p) == Slice(s, p, p + Len(CALL)) = CALL

\* C5 - String/comment immunity: no occurrence starts inside a quoted
\* string, inside the non-expression text of a template literal, or inside
\* a line or block comment.
C5_Immunity ==
  Returned =>
    \A k \in 1..Len(result) :
      ModeAt(text, result[k].startIndex) \notin ProtectedModes

\* a terminated single-quoted string that contains console.log(x)
C5_Witness ==
  /\ Returned
  /\ \E p \in 1..Len(text) :
       /\ CallAt(text, p)
       /\ ModeAt(text, p) = "sq"
       /\ ModeAt(text, Len(text) - 1) = "sq"
       /\ text[Len(text)] = "'"
  /\ result = <<>>

\* C6 - Template-expression matching: a console.log(x) that fills a ${ }
\* expression of a template literal (closed by a backtick right after the
\* expression) yields exactly one occurrence, which covers that call.
C6_TemplateExpression ==
  Returned =>
    \A p \in 2..Len(text) :
      ( /\ CallAt(text, p)
        /\ Slice(text, p - 2, p) = <<"$", "{">>
        /\ CharAt(text, p + Len(CALL)) = "}"
        /\ ModeAt(text, p) = "expr"
        /\ CharAt(text, p + Len(CALL) + 1) = Backtick
        /\ ModeAt(text, p + Len(CALL) + 1) = "tpl" )
      => Cardinality({k \in 1..Len(result) :
                        /\ result[k].startIndex = p
                        /\ result[k].endIndex = p + Len(CALL)}) = 1

--------------------------------------------------------------------------
(* Reference structure of a call, in offsets of the text *)

SetMin(S) == CHOOSE x \in S : \A y \in S : x <= y

SetMax(S) == CHOOSE x \in S : \A y \in S : y <= x

\* offsets in a..b of the program-text characters equal to c
CodeChars(s, r, a, b, c) ==
  {p \in a..b : CharAt(s, p) = c /\ r.modes[p + 1] = "code"}

\* offsets after the "(" at offset a at which the balance of parentheses
\* is back to what it was before that "("; the least is its matching ")"
ClosersOf(s, r, a) ==
  {p \in (a + 1)..(Len(s) - 1) : r.bals[p + 1] = r.bals[a + 1] - 1}

\* offsets after b of the characters that are neither white space nor
\* part of a comment
SolidAfter(s, r, b) ==
  {p \in (b + 1)..(Len(s) - 1) :
     ~IsSpace(CharAt(s, p)) /\ r.modes[p + 1] \notin {"line", "block"}}

\* C7 - Balanced nesting: the last ")" of program text inside an occurrence
\* is the one that matches the call's own "(", the first "(" of program
\* text in the occurrence; parentheses in strings, templates and comments
\* do not count.
C7_BalancedNesting ==
  Returned =>
    LET r == Ref(text)
    IN  \A k \in 1..Len(result) :
          LET o      == result[k]
              opens  == CodeChars(text, r, o.startIndex, o.endIndex - 1, "(")
              closes == CodeChars(text, r, o.startIndex, o.endIndex - 1, ")")
          IN  /\ opens # {}
              /\ closes # {}
              /\ ClosersOf(text, r, SetMin(opens)) # {}
              /\ SetMax(closes) = SetMin(ClosersOf(text, r, SetMin(opens)))

\* an occurrence whose argument list contains a nested "(" ... ")"
C7_Witness ==
  /\ Returned
  /\ \E k \in 1..Len(result) :
       LET r      == Ref(text)
           opens  == CodeChars(text, r, result[k].startIndex, result[k].endIndex - 1, "(")
           closes == CodeChars(text, r, result[k].startIndex, result[k].endIndex - 1, ")")
       IN  Cardinality(opens) >= 2 /\ Cardinality(closes) >= 2

\* C8 - Terminator absorption: an occurrence ends right after the ";" when
\* ";" is the first character after the call's closing parenthesis that is
\* neither white space nor part of a comment, and otherwise right after
\* the closing parenthesis.
C8_Terminator ==
  Returned =>
    LET r == Ref(text)
    IN  \A k \in 1..Len(result) :
          LET o      == result[k]
              opens  == CodeChars(text, r, o.startIndex, Len(text) - 1, "(")
              closes == ClosersOf(text, r, SetMin(opens))
              solid  == SolidAfter(text, r, SetMin(closes))
          IN  /\ opens # {}
              /\ closes # {}
              /\ o.endIndex =
                   IF /\ solid # {}
                      /\ CharAt(text, SetMin(solid)) = ";"
                      /\ r.modes[SetMin(solid) + 1] = "code"
                   THEN SetMin(solid) + 1
                   ELSE SetMin(closes) + 1

\* an occurrence that absorbed its ";" and is followed by white space
C8_Witness ==
  /\ Returned
  /\ \E k \in 1..Len(result) :
       /\ CharAt(text, result[k].endIndex - 1) = ";"
       /\ IsSpace(CharAt(text, result[k].endIndex))

--------------------------------------------------------------------------
(* Totality *)

OccurrenceFields == {"startIndex", "endIndex", "startLine", "preview", "method"}

\* C9 - Totality: scanConsoleLogsInText never raises and never runs
\* forever: it is tokenizing, extracting or has returned, its loops make
\* progress (no more tokens than characters, no more statements than
\* tokens), and what it returns is a list of occurrences, empty after an
\* internal failure.
C9_Total ==
  /\ pc \in {"tokenize", "find", "done"}
  /\ Len(tokens) <= Len(text)
  /\ Len(statements) <= Len(tokens)
  /\ Returned =>
       /\ \A k \in 1..Len(result) :
            /\ DOMAIN result[k] = OccurrenceFields
            /\ result[k].startIndex \in 0..Len(text)
            /\ result[k].endIndex \in 0..Len(text)
       /\ Len(result) = (IF error THEN 0 ELSE Len(statements))

\* a malformed text has been scanned: an unbalanced call followed by an
\* unterminated string that ends with a backslash
C9_Witness ==
  /\ Returned
  /\ tokens # <<>>
  /\ tokens[1].type = "console"
  /\ LastToken.type \in {"string", "template"}
  /\ LastToken.end > Len(text)
  /\ result = <<>>

--------------------------------------------------------------------------
(* Allow-list *)

\* index of the first token after index j that is neither whitespace nor
\* comment, -1 if none
NextSolid(toks, j) ==
  LET S == {q \in (j + 1)..(Len(toks) - 1) :
              TokAt(toks, q).type \notin {"whitespace", "comment"}}
  IN  IF S = {} THEN -1 ELSE SetMin(S)

\* token j is a receiver followed by a dot and an identifier that is not
\* in CONSOLE_METHODS
Rejected(toks, j) ==
  LET d == NextSolid(toks, j)
      m == IF d = -1 THEN -1 ELSE NextSolid(toks, d)
  IN  /\ TokAt(toks, j).type = "console"
      /\ d # -1
      /\ TokAt(toks, d).type = "dot"
      /\ m # -1
      /\ IsIdentStart(TokAt(toks, m).value[1])
      /\ TokAt(toks, m).value \notin CONSOLE_METHODS

C10_Methods ==
  Returned =>
    /\ \A k \in 1..Len(result) : result[k].method \in CONSOLE_METHODS
    /\ \A j \in 0..(Len(tokens) - 1) :
         Rejected(tokens, j) =>
           \A k \in 1..Len(result) : result[k].startIndex # TokAt(tokens, j).start

C10_Resume ==
  (pc = "find" /\ fi < Len(tokens) /\ Rejected(tokens, fi))
    => (fi' = fi + 1 /\ statements' = statements)

\* C10 - Allow-list: the method of every occurrence is in CONSOLE_METHODS;
\* a receiver followed by a dot and a name outside the set yields no
\* occurrence, and the extractor resumes at the token after the receiver.
C10_AllowList == [](C10_Methods) /\ [][C10_Resume]_vars

\* console.foo( was rejected and a call after the receiver was found
C10_Witness ==
  /\ Returned
  /\ \E j \in 0..(Len(tokens) - 1) :
       /\ Rejected(tokens, j)
       /\ \E k \in 1..Len(result) : result[k].startIndex > TokAt(tokens, j).start

--------------------------------------------------------------------------
(* Unbalanced and nested calls *)

\* index of the "(" token of the candidate console.<method>( whose receiver
\* is token j, -1 if token j does not start such a candidate
CandidateParen(toks, j) ==
  LET d == NextSolid(toks, j)
      m == IF d = -1 THEN -1 ELSE NextSolid(toks, d)
      p == IF m = -1 THEN -1 ELSE NextSolid(toks, m)
  IN  IF /\ TokAt(toks, j).type = "console"
         /\ p # -1
         /\ TokAt(toks, d).type = "dot"
         /\ TokAt(toks, m).type = "method"
         /\ TokAt(toks, p).type = "paren_open"
      THEN p ELSE -1

\* token j starts a candidate whose "(" is not closed before end of input
Unbalanced(toks, s, j) ==
  /\ CandidateParen(toks, j) # -1
  /\ ClosersOf(s, Ref(s), TokAt(toks, CandidateParen(toks, j)).start) = {}

C11_Dropped ==
  /\ Returned => ~error
  /\ Returned =>
       \A j \in 0..(Len(tokens) - 1) :
         Unbalanced(tokens, text, j) =>
           \A k \in 1..Len(result) : result[k].startIndex # TokAt(tokens, j).start

C11_Continue ==
  (pc = "find" /\ fi < Len(tokens) /\ Unbalanced(tokens, text, fi))
    => (fi' = fi + 1 /\ statements' = statements /\ pc' = "find" /\ ~error')

\* C11 - Unbalanced calls are dropped: a candidate console.<method>( whose
\* "(" has no matching ")" before end of input yields no occurrence and
\* raises no error, and the extractor goes on with the next token.
C11_Unbalanced == [](C11_Dropped) /\ [][C11_Continue]_vars

\* console.log( is never closed, and a call that follows it was found
C11_Witness ==
  /\ Returned
  /\ ~error
  /\ \E j \in 0..(Len(tokens) - 1) :
       /\ Unbalanced(tokens, text, j)
       /\ \E k \in 1..Len(result) : result[k].startIndex > TokAt(tokens, j).start

\* token j starts a candidate whose "(" is closed before end of input
Balanced(toks, s, j) ==
  /\ CandidateParen(toks, j) # -1
  /\ ClosersOf(s, Ref(s), TokAt(toks, CandidateParen(toks, j)).start) # {}

\* offset p lies strictly inside the span of occurrence o
StrictlyInside(p, o) == o.startIndex < p /\ p < o.endIndex

\* C12 - Outer call wins: no occurrence starts strictly inside the span of
\* another one, and every balanced console call either is an occurrence
\* itself or lies inside the span of one (the outer call), never both.
C12_OuterWins ==
  Returned =>
    /\ \A k, l \in 1..Len(result) :
         ~StrictlyInside(result[l].startIndex, result[k])
    /\ \A j \in 0..(Len(tokens) - 1) :
         Balanced(tokens, text, j) =>
           LET p == TokAt(tokens, j).start
           IN  (\E k \in 1..Len(result) : result[k].startIndex = p)
                 # (\E k \in 1..Len(result) : StrictlyInside(p, result[k]))

\* a balanced call in the arguments of a balanced call: one occurrence only,
\* the outer call
C12_Witness ==
  /\ Returned
  /\ Len(result) = 1
  /\ \E j \in 0..(Len(tokens) - 1) :
       /\ Balanced(tokens, text, j)
       /\ StrictlyInside(TokAt(tokens, j).start, result[1])
       /\ result[1].endIndex > TokAt(tokens, j).end

--------------------------------------------------------------------------
(* vscode.TextDocument over a text s, as used by calculateSmartRemoval:     *)
(* lines are separated by "\n", positions are (line, character) pairs.      *)

Position(ln, character) == [line |-> ln, character |-> character]

\* a is before b
IsBefore(a, b) ==
  a.line < b.line \/ (a.line = b.line /\ a.character < b.character)

\* new vscode.Range(a, b): start is the lesser of the two positions
Range(a, b) ==
  IF IsBefore(b, a) THEN [start |-> b, end |-> a] ELSE [start |-> a, end |-> b]

\* offsets of the line breaks of s
LineBreaks(s) == {p \in 0..(Len(s) - 1) : CharAt(s, p) = "\n"}

\* doc.lineCount
LineCount(s) == Cardinality(LineBreaks(s)) + 1

\* offset of the first character of line n
LineStart(s, n) ==
  LET breaks == LineBreaks(s)
  IN  IF n = 0 THEN 0
      ELSE 1 + (CHOOSE p \in breaks :
                  Cardinality({q \in breaks : q < p}) = n - 1)

\* offset of the end of the text of line n (its line break, or end of text)
LineEnd(s, n) ==
  LET later == {p \in LineBreaks(s) : p >= LineStart(s, n)}
  IN  IF later = {} THEN Len(s) ELSE SetMin(later)

\* doc.positionAt(offset): the offset is first brought into the document
positionAt(s, offset) ==
  LET o  == Max(0, Min(offset, Len(s)))
      ln == Cardinality({p \in LineBreaks(s) : p < o})
  IN  Position(ln, o - LineStart(s, ln))

\* doc.offsetAt(position): the character is first brought into the line
offsetAt(s, pos) ==
  LineStart(s, pos.line)
    + Min(pos.character, LineEnd(s, pos.line) - LineStart(s, pos.line))

\* line.range excludes the line break
RangeOfLine(s, n) ==
  Range(Position(n, 0), Position(n, LineEnd(s, n) - LineStart(s, n)))

RangeIncludingLineBreak_NoBreak(s, n) == RangeOfLine(s, n)

\* line.rangeIncludingLineBreak ends at the start of the next line, or at
\* the end of the last line
RangeIncludingLineBreak(s, n) ==
  IF n < LineCount(s) - 1
  THEN Range(Position(n, 0), Position(n + 1, 0))
  ELSE RangeOfLine(s, n)

\* doc.lineAt(n)
lineAt(s, n) ==
  [text  |-> Slice(s, LineStart(s, n), LineEnd(s, n)),
   range |-> RangeOfLine(s, n),
   rangeIncludingLineBreak |-> RangeIncludingLineBreak(s, n)]

\* /^\s*$/.test(str)
IsBlank(str) == \A k \in 1..Len(str) : IsSpace(str[k])

--------------------------------------------------------------------------
(* calculateSmartRemoval and processFile (src/unnamed/part_002)             *)

\* the whole line of the occurrence's start, whatever else the line holds
calculateSmartRemoval_AlwaysLine(s, occ) ==
  lineAt(s, positionAt(s, occ.startIndex).line).rangeIncludingLineBreak

\* the range to delete for occurrence occ of the document with text s
calculateSmartRemoval(s, occ) ==
  LET start  == positionAt(s, occ.startIndex)
      end    == positionAt(s, occ.endIndex)
      ln     == lineAt(s, start.line)
      before == Slice(ln.text, 0, start.character)
      after  == Slice(ln.text, end.character, Len(ln.text))
  IN  IF IsBlank(before) /\ IsBlank(after)
        THEN ln.rangeIncludingLineBreak
      ELSE IF IsBlank(before)
        THEN Range(ln.range.start, end)
      ELSE IF IsBlank(after)
        THEN Range(start, ln.rangeIncludingLineBreak.end)
      ELSE Range(start, end)

CompareOccurrences_Ascending(a, b) == a.startIndex - b.startIndex

\* (a, b) => b.startIndex - a.startIndex
CompareOccurrences(a, b) == b.startIndex - a.startIndex

\* x inserted into the sorted sequence seq, after the elements it does not
\* have to precede (Array.prototype.sort is stable)
RECURSIVE InsertSorted(_, _)
InsertSorted(seq, x) ==
  IF seq = <<>> THEN <<x>>
  ELSE IF CompareOccurrences(Head(seq), x) > 0 THEN <<x>> \o seq
  ELSE <<Head(seq)>> \o InsertSorted(Tail(seq), x)

\* [...file.occurrences].sort(compare)
RECURSIVE SortOccurrences(_)
SortOccurrences(seq) ==
  IF seq = <<>> THEN <<>>
  ELSE InsertSorted(SortOccurrences(SubSeq(seq, 1, Len(seq) - 1)), seq[Len(seq)])

\* edit.delete(uri, range): a text edit that replaces the range by nothing
DeleteEdit(range) == [range |-> range, newText |-> <<>>]

\* the half-open offsets [a, b) of the range of edit e in the text s
EditSpan(s, e) ==
  [a |-> offsetAt(s, e.range.start), b |-> offsetAt(s, e.range.end)]

\* the spans of the edits es, each with its place in the queue
EditSpans(s, es) == {<<k, EditSpan(s, es[k])>> : k \in 1..Len(es)}

\* two of the edits es share a character of s
EditsOverlap(s, es) ==
  LET spans == EditSpans(s, es)
  IN  \E x, y \in spans :
        /\ x[1] # y[1]
        /\ x[2].a < y[2].b
        /\ y[2].a < x[2].b

\* the text out after the edits of spans have been made in it, the last one
\* in the text first, so that the offsets of the others still hold
RECURSIVE ApplyEdits(_, _, _)
ApplyEdits(es, spans, out) ==
  IF spans = {} THEN out
  ELSE LET x == CHOOSE x \in spans : \A y \in spans :
                  \/ y[2].a < x[2].a
                  \/ (y[2].a = x[2].a /\ y[1] <= x[1])
       IN  ApplyEdits(es, spans \ {x},
                      Slice(out, 0, x[2].a) \o es[x[1]].newText
                        \o Slice(out, x[2].b, Len(out)))

\* the document text after vscode.workspace.applyEdit(edit) has applied the
\* edits es, all of them given in positions of the text s
EditedText(s, es) == ApplyEdits(es, EditSpans(s, es), s)

--------------------------------------------------------------------------
(* scanConsoleLogsInText as a function of the text: the loops of           *)
(* tokenizeCode and findConsoleStatements run to their end                  *)

\* one iteration of the main loop of tokenizeCode
TokenizeBody(s, st) ==
  LET r == TokenizeIter(s, st.i, st.line)
  IN  [st EXCEPT !.i = r.i, !.line = r.line, !.tokens = Append(@, r.tok)]

tokenizeCode(s) ==
  While(InText, TokenizeBody, s,
        [i |-> 0, line |-> 0, tokens |-> <<>>, brk |-> FALSE]).tokens

\* one iteration of the loop of findConsoleStatements; an iteration that
\* throws leaves the loop
FindBody(toks, st) ==
  LET r == FindIter(toks, st.i)
  IN  IF r.threw THEN [st EXCEPT !.threw = TRUE, !.brk = TRUE]
      ELSE [st EXCEPT !.i = r.next,
                      !.statements = IF r.found THEN Append(@, r.stmt) ELSE @]

findConsoleStatements(toks) ==
  While(InTokens, FindBody, toks,
        [i |-> 0, statements |-> <<>>, threw |-> FALSE, brk |-> FALSE])

scanConsoleLogsInText(s) ==
  LET found == findConsoleStatements(tokenizeCode(s))
  IN  IF found.threw THEN <<>>
      ELSE [k \in 1..Len(found.statements) |-> Occurrence(s, found.statements[k])]

--------------------------------------------------------------------------
(* processFile as a state machine: the file is scanned, its occurrences are *)
(* sorted, one removal is computed and queued per occurrence, the edit is   *)
(* applied and saved, and the saved text is scanned again.  A scan is one   *)
(* step here.                                                              *)

MaxFileFrags == 3

\* parts of the files processed: a call, an unclosed call, a closing
\* parenthesis, a terminator, a line break, a space, a call on an indented
\* line of its own, and the lines
\*   const f = () => console.log('x');
\*   const v = cond ? console.log(a) : b;
FileFragments ==
  { <<"c","o","n","s","o","l","e",".","l","o","g","(","x",")">>,
    <<"c","o","n","s","o","l","e",".","l","o","g","(">>,
    <<")">>,
    <<";">>,
    <<"\n">>,
    <<" ">>,
    <<"\n"," "," ","c","o","n","s","o","l","e",".","l","o","g","(","x",")">>,
    <<"c","o","n","s","t"," ","f"," ","="," ","(",")"," ","=",">"," ","c","o","n","s","o","l","e",".","l","o","g","(","'","x","'",")",";">>,
    <<"c","o","n","s","t"," ","v"," ","="," ","c","o","n","d"," ","?"," ","c","o","n","s","o","l","e",".","l","o","g","(","a",")"," ",":"," ","b",";">> }

FileInputs ==
  { Concat(fs) : fs \in UNION { [1..n -> FileFragments] : n \in 0..MaxFileFrags } }

FileInit ==
  /\ text \in FileInputs
  /\ ScanInit
  /\ ProcInit
  /\ HostOff
  /\ NoCalls
  /\ CleanOff

\* const occurrences = scanConsoleLogsInText(text)
ScanFile ==
  /\ pc = "tokenize"
  /\ result' = scanConsoleLogsInText(text)
  /\ pc' = "done"
  /\ UNCHANGED <<text, i, line, tokens, fi, statements, error>>
  /\ UNCHANGED scanFrame

\* processFile(file): the document is opened and a copy of file.occurrences,
\* stored in any order, is sorted
ProcessFileStart ==
  /\ pc = "done"
  /\ run = 1
  /\ result # <<>>
  /\ \E order \in Permutations(1..Len(result)) :
       LET occurrences == [k \in 1..Len(result) |-> result[order[k]]]
       IN  /\ stored' = occurrences
           /\ sorted' = SortOccurrences(occurrences)
  /\ doc' = text
  /\ si' = 0
  /\ edits' = <<>>
  /\ pc' = "process"
  /\ UNCHANGED <<text, i, line, tokens, fi, statements, result, error, run, applied>>
  /\ UNCHANGED <<hostVars, callVars, cleanVars>>

\* for (const occ of sorted) { ... edit.delete(uri, removal) }
RemovalStep ==
  /\ pc = "process"
  /\ si < Len(sorted)
  /\ edits' = Append(edits, DeleteEdit(calculateSmartRemoval(doc, sorted[si + 1])))
  /\ si' = si + 1
  /\ UNCHANGED <<scanVars, run, doc, stored, sorted, applied>>
  /\ UNCHANGED <<hostVars, callVars, cleanVars>>

\* applyEdit and doc.save(): the edit is refused when two of its ranges
\* overlap; otherwise the edited text is saved, and it is scanned again.
\* processFile returns, which ends the life of its sorted copy and its edit.
ApplyEdit ==
  /\ pc = "process"
  /\ ~(si < Len(sorted))
  /\ IF EditsOverlap(doc, edits)
     THEN /\ applied' = FALSE
          /\ pc' = "failed"
          /\ UNCHANGED <<text, i, line, tokens, fi, statements, result, error, run>>
     ELSE /\ applied' = TRUE
          /\ text' = EditedText(doc, edits)
          /\ run' = 2
          /\ pc' = "tokenize"
          /\ i' = 0
          /\ line' = 0
          /\ tokens' = <<>>
          /\ fi' = 0
          /\ statements' = <<>>
          /\ result' = <<>>
          /\ error' = FALSE
  /\ stored' = <<>>
  /\ sorted' = <<>>
  /\ si' = 0
  /\ edits' = <<>>
  /\ UNCHANGED doc
  /\ UNCHANGED <<hostVars, callVars, cleanVars>>

FileNext ==
  \/ ScanFile
  \/ ProcessFileStart
  \/ RemovalStep
  \/ ApplyEdit

FileSpec == FileInit /\ [][FileNext]_vars

--------------------------------------------------------------------------
(* Properties of the removals queued by processFile *)

\* the removals of the occurrences handled so far are queued
Queued == pc = "process" /\ Len(edits) = si

\* C13 - Removal range covers the match: the range queued for an occurrence
\* contains the whole span [startIndex, endIndex) of the occurrence.
C13_Covers ==
  Queued =>
    \A k \in 1..Len(edits) :
      /\ EditSpan(doc, edits[k]).a <= sorted[k].startIndex
      /\ sorted[k].endIndex <= EditSpan(doc, edits[k]).b

\* offset of the first character of the line that holds offset p of s
LineStartOf(s, p) ==
  LET earlier == {q \in 0..(p - 1) : CharAt(s, q) = "\n"}
  IN  IF earlier = {} THEN 0 ELSE SetMax(earlier) + 1

\* offset of the line break that ends the line holding offset p of s, or the
\* length of s when it is the last line
LineEndOf(s, p) ==
  LET later == {q \in p..(Len(s) - 1) : CharAt(s, q) = "\n"}
  IN  IF later = {} THEN Len(s) ELSE SetMin(later)

\* occurrence o of s lies on one line, with nothing but white space before
\* it and after it on that line
AloneOnLine(s, o) ==
  /\ \A p \in o.startIndex..(o.endIndex - 1) : CharAt(s, p) # "\n"
  /\ IsBlank(Slice(s, LineStartOf(s, o.startIndex), o.startIndex))
  /\ IsBlank(Slice(s, o.endIndex, LineEndOf(s, o.endIndex)))

\* C14 - Whole-line deletion: for an occurrence that is alone on its line,
\* the removal queued is a deletion without replacement of the entire line,
\* its line break included.
C14_WholeLine ==
  Queued =>
    \A k \in 1..Len(edits) :
      AloneOnLine(doc, sorted[k]) =>
        /\ edits[k].newText = <<>>
        /\ EditSpan(doc, edits[k]).a = LineStartOf(doc, sorted[k].startIndex)
        /\ EditSpan(doc, edits[k]).b =
             Min(LineEndOf(doc, sorted[k].endIndex) + 1, Len(doc))

\* an indented call, alone on a line that ends with a line break
C14_Witness ==
  /\ Queued
  /\ \E k \in 1..Len(edits) :
       /\ AloneOnLine(doc, sorted[k])
       /\ LineStartOf(doc, sorted[k].startIndex) < sorted[k].startIndex
       /\ LineEndOf(doc, sorted[k].endIndex) < Len(doc)

\* the text of the line of s that holds offset p
LineOf(s, p) == Slice(s, LineStartOf(s, p), LineEndOf(s, p))

\* const f = () => console.log('x');
ArrowLine ==
  <<"c","o","n","s","t"," ","f"," ","="," ","(",")"," ","=",">"," ","c","o","n","s","o","l","e",".","l","o","g","(","'","x","'",")",";">>

\* C15 - Arrow-body safety: the removal queued for the call that is the body
\* of the arrow function in  const f = () => console.log('x');  replaces
\* the call and its terminator by {};
C15_ArrowBody ==
  Queued =>
    \A k \in 1..Len(edits) :
      LineOf(doc, sorted[k].startIndex) = ArrowLine =>
        /\ edits[k].newText = <<"{", "}", ";">>
        /\ EditSpan(doc, edits[k]).a = sorted[k].startIndex
        /\ EditSpan(doc, edits[k]).b = sorted[k].endIndex

\* const v = cond ? console.log(a) : b;
TernaryLine ==
  <<"c","o","n","s","t"," ","v"," ","="," ","c","o","n","d"," ","?"," ","c","o","n","s","o","l","e",".","l","o","g","(","a",")"," ",":"," ","b",";">>

\* C16 - Ternary consequent: the removal queued for the call in the
\* consequent of  const v = cond ? console.log(a) : b;  replaces the call
\* by undefined.
C16_Ternary ==
  Queued =>
    \A k \in 1..Len(edits) :
      LineOf(doc, sorted[k].startIndex) = TernaryLine =>
        /\ edits[k].newText = <<"u", "n", "d", "e", "f", "i", "n", "e", "d">>
        /\ EditSpan(doc, edits[k]).a = sorted[k].startIndex
        /\ EditSpan(doc, edits[k]).b = sorted[k].endIndex

\* the sorted copy holds the stored occurrences, in strictly descending
\* order of startIndex, and the document is as the scanner saw it
C17_Sorted ==
  pc = "process" =>
    /\ Len(sorted) = Len(stored)
    /\ {sorted[k] : k \in 1..Len(sorted)} = {stored[k] : k \in 1..Len(stored)}
    /\ \A k, l \in 1..Len(sorted) :
         k < l => sorted[k].startIndex > sorted[l].startIndex
    /\ Len(edits) = si
    /\ doc = text

\* a step that queues a removal queues the one of the next occurrence of the
\* sorted copy, which starts before all the occurrences handled before it
C17_Queue ==
  (pc = "process" /\ edits' # edits /\ pc' = "process") =>
    /\ edits' = Append(edits, DeleteEdit(calculateSmartRemoval(doc, sorted[si + 1])))
    /\ si' = si + 1
    /\ \A k \in 1..si : sorted[k].startIndex > sorted[si + 1].startIndex
    /\ doc' = doc /\ text' = text /\ sorted' = sorted

\* C17 - Descending application order: processFile computes and queues the
\* removals of a file's occurrences in strictly descending startIndex
\* order, whatever the order they were stored in, on the unedited document.
C17_Descending == [](C17_Sorted) /\ [][C17_Queue]_vars

\* all the removals of a file whose occurrences were stored in ascending
\* order have been queued
C17_Witness ==
  /\ Queued
  /\ Len(stored) >= 2
  /\ si = Len(sorted)
  /\ \A k, l \in 1..Len(stored) :
       k < l => stored[k].startIndex < stored[l].startIndex

\* the text saved by processFile has been scanned
Rescanned == run = 2 /\ pc = "done" /\ applied

\* C18 - Idempotence: the scan of the text that processFile saved finds no
\* occurrence.
C18_Idempotent == Rescanned => result = <<>>

--------------------------------------------------------------------------
(* The extension host.  A file of the workspace is described by what the   *)
(* commands observe of it: whether its path includes ".output", whether it *)
(* can be opened, whether its text is longer than the size limit, and the  *)
(* number of occurrences a scan of its text returns.                       *)

MaxFiles == 2

MaxCommands == 2

FileKind(output, opens, big, occs) ==
  [output |-> output, opens |-> opens, big |-> big, occs |-> occs]

FileKinds ==
  { FileKind(FALSE, TRUE, FALSE, 0),
    FileKind(FALSE, TRUE, FALSE, 2),
    FileKind(TRUE, TRUE, FALSE, 1),
    FileKind(FALSE, TRUE, TRUE, 1),
    FileKind(FALSE, FALSE, FALSE, 1) }

Workspaces == UNION { [1..n -> FileKinds] : n \in 0..MaxFiles }

\* files[i] of the TypeScript source, i counted from 0
FileAt(k) == files[k + 1]

HostInit ==
  /\ text = <<>>
  /\ ScanInit
  /\ ProcInit
  /\ NoCalls
  /\ CleanOff
  /\ variant \in {"noLogs", "noLogsClean"}
  /\ files \in Workspaces
  /\ hpc = "idle"
  /\ ncmd = 0
  /\ withPreview = FALSE
  /\ bi = 0
  /\ findings = <<>>
  /\ total = 0
  /\ processedFiles = 0
  /\ skippedFiles = 0
  /\ errors = 0
  /\ reports = <<>>
  /\ cancelled = FALSE
  /\ lastScan = <<>>
  /\ pending = <<>>
  /\ choice = "none"
  /\ pfi = 0
  /\ successfulRemovals = 0
  /\ failedRemovals = 0
  /\ written = {}
  /\ selection = NoSelection
  /\ createBackups \in BOOLEAN
  /\ backups = {}

\* what a step of the host leaves alone, but for the steps that move the
\* editor selection or store a backup
hostFrame == <<scanVars, procVars, callVars, cleanVars, variant, selection, createBackups, backups>>

\* a command can be invoked
CanInvoke(v) == variant = v /\ hpc = "idle" /\ ncmd < MaxCommands

--------------------------------------------------------------------------
(* src/unnamed/part_002: commands noLogs.scan and noLogs.clean              *)

\* runScanAndMaybeClean(preview) up to the entry of its loop; it returns at
\* once when no file was found
StartScan(preview) ==
  /\ withPreview' = preview
  /\ bi' = 0
  /\ findings' = <<>>
  /\ total' = 0
  /\ processedFiles' = 0
  /\ skippedFiles' = 0
  /\ errors' = 0
  /\ reports' = <<>>
  /\ hpc' = IF Len(files) = 0 THEN "idle" ELSE "scanning"
  /\ UNCHANGED <<files, cancelled, lastScan, removalVars, written>>

\* confirmAndApplyRemoval(fs) up to its dialog
StartConfirm(fs) ==
  /\ pending' = fs
  /\ choice' = "none"
  /\ hpc' = "confirm"
  /\ UNCHANGED <<pfi, successfulRemovals, failedRemovals>>

\* noLogs.scan
ScanCommand ==
  /\ CanInvoke("noLogs")
  /\ ncmd' = ncmd + 1
  /\ StartScan(TRUE)
  /\ UNCHANGED hostFrame

\* noLogs.clean
CleanCommand ==
  /\ CanInvoke("noLogs")
  /\ ncmd' = ncmd + 1
  /\ IF Len(lastScan) = 0
     THEN StartScan(FALSE)
     ELSE /\ StartConfirm(lastScan)
          /\ withPreview' = FALSE
          /\ UNCHANGED <<files, loopVars, cancelled, lastScan, written>>
  /\ UNCHANGED hostFrame

\* the failure of one file ends the loop
NextAfterError_Abort(k) == Len(files)

\* catch (error) { ... }: the loop goes on with its i++
NextAfterError(k) == k + 1

\* one iteration of the loop of runScanAndMaybeClean
ScanLoopStep ==
  /\ hpc = "scanning"
  /\ bi < Len(files)
  /\ reports' = Append(reports, bi)
  /\ LET file == FileAt(bi)
     IN  IF file.output
           THEN /\ skippedFiles' = skippedFiles + 1
                /\ bi' = bi + 1
                /\ UNCHANGED <<findings, total, processedFiles, errors>>
         ELSE IF ~file.opens
           THEN /\ errors' = errors + 1
                /\ skippedFiles' = skippedFiles + 1
                /\ bi' = NextAfterError(bi)
                /\ UNCHANGED <<findings, total, processedFiles>>
         ELSE IF file.big
           THEN /\ skippedFiles' = skippedFiles + 1
                /\ bi' = bi + 1
                /\ UNCHANGED <<findings, total, processedFiles, errors>>
         ELSE /\ findings' = IF file.occs > 0
                             THEN Append(findings, [file |-> bi, occurrences |-> file.occs])
                             ELSE findings
              /\ total' = total + file.occs
              /\ processedFiles' = processedFiles + 1
              /\ bi' = bi + 1
              /\ UNCHANGED <<skippedFiles, errors>>
  /\ UNCHANGED <<files, hpc, ncmd, withPreview, cancelled, lastScan, removalVars, written>>
  /\ UNCHANGED hostFrame

\* the scan of noLogs.scan goes on to the removal as that of noLogs.clean
ShowsPreview_Never(preview) == FALSE

\* if (withPreview) showPreview(findings) else confirmAndApplyRemoval(findings)
ShowsPreview(preview) == preview

\* after the loop: lastScan = findings, then nothing found, the preview, or
\* confirmAndApplyRemoval(findings)
ScanLoopEnd ==
  /\ hpc = "scanning"
  /\ ~(bi < Len(files))
  /\ lastScan' = findings
  /\ IF total = 0
       THEN /\ hpc' = "idle"
            /\ UNCHANGED removalVars
     ELSE IF ShowsPreview(withPreview)
       THEN /\ hpc' = "preview"
            /\ UNCHANGED removalVars
     ELSE StartConfirm(findings)
  /\ UNCHANGED <<files, ncmd, withPreview, loopVars, cancelled, written>>
  /\ UNCHANGED hostFrame

\* showPreview(findings): the user dismisses the quick pick, or selects the
\* item of an occurrence; the file named by the item's label is looked up in
\* findings, opened and shown, and the editor selection is set to the item's
\* line. A file that cannot be opened makes openTextDocument throw, which
\* runScanAndMaybeClean catches.
PreviewPick ==
  /\ hpc = "preview"
  /\ \/ UNCHANGED selection
     \/ \E n \in 1..Len(findings) : \E item \in 0..(findings[n].occurrences - 1) :
          selection' = IF FileAt(findings[n].file).opens
                       THEN [file |-> findings[n].file, item |-> item]
                       ELSE selection
  /\ hpc' = "idle"
  /\ UNCHANGED <<files, ncmd, withPreview, loopVars, cancelled, lastScan, removalVars, written>>
  /\ UNCHANGED <<scanVars, procVars, callVars, cleanVars, variant, createBackups, backups>>

Declined_OnlyCancel(c) == c = "Cancel"

\* choice !== "Remove All"
Declined(c) == c # "Remove All"

\* the user answers the dialog of confirmAndApplyRemoval, or dismisses it
ConfirmAnswer ==
  /\ hpc = "confirm"
  /\ \E c \in {"Remove All", "Cancel", "dismissed"} :
       /\ choice' = c
       /\ hpc' = IF Declined(c) THEN "idle" ELSE "removing"
  /\ pfi' = 0
  /\ successfulRemovals' = 0
  /\ failedRemovals' = 0
  /\ UNCHANGED <<files, ncmd, withPreview, loopVars, cancelled, lastScan, pending, written>>
  /\ UNCHANGED hostFrame

\* one iteration of the loop of confirmAndApplyRemoval: processFile(file)
\* returns whether applyEdit succeeded, and saves the document if it did;
\* left is the number of occurrences of the saved text
RemoveStep ==
  /\ hpc = "removing"
  /\ pfi < Len(pending)
  /\ LET file == pending[pfi + 1]
     IN  \E success \in BOOLEAN :
           IF success
           THEN /\ successfulRemovals' = successfulRemovals + file.occurrences
                /\ written' = written \cup {file.file}
                /\ \E left \in 0..(file.occurrences - 1) :
                     files' = [files EXCEPT ![file.file + 1].occs = left]
                /\ UNCHANGED failedRemovals
           ELSE /\ failedRemovals' = failedRemovals + file.occurrences
                /\ UNCHANGED <<successfulRemovals, written, files>>
  /\ pfi' = pfi + 1
  /\ UNCHANGED <<hpc, ncmd, withPreview, loopVars, cancelled, lastScan, pending, choice>>
  /\ UNCHANGED hostFrame

\* lastScan is emptied after every removal pass
RemoveEnd_AlwaysClears ==
  /\ hpc = "removing"
  /\ ~(pfi < Len(pending))
  /\ lastScan' = <<>>
  /\ hpc' = "idle"
  /\ UNCHANGED <<files, ncmd, withPreview, loopVars, cancelled, removalVars, written>>
  /\ UNCHANGED hostFrame

\* after the loop: lastScan = [] when something was removed
RemoveEnd ==
  /\ hpc = "removing"
  /\ ~(pfi < Len(pending))
  /\ lastScan' = IF successfulRemovals > 0 THEN <<>> ELSE lastScan
  /\ hpc' = "idle"
  /\ UNCHANGED <<files, ncmd, withPreview, loopVars, cancelled, removalVars, written>>
  /\ UNCHANGED hostFrame

--------------------------------------------------------------------------
(* src/src/extension.ts: commands no-logs-clean.scanWorkspace,              *)
(* cleanupWorkspace and cleanupCurrentFile.  Here findings stands for the   *)
(* results array of scanWorkspace.                                          *)

\* the loop variables at the entry of a loop over the files
LoopEntry ==
  /\ bi' = 0
  /\ findings' = <<>>
  /\ reports' = <<>>
  /\ cancelled' = FALSE
  /\ UNCHANGED <<total, processedFiles, skippedFiles, errors>>

\* no-logs-clean.scanWorkspace
XScanCommand ==
  /\ CanInvoke("noLogsClean")
  /\ ncmd' = ncmd + 1
  /\ LoopEntry
  /\ hpc' = "xscanning"
  /\ UNCHANGED <<files, withPreview, lastScan, removalVars, written>>
  /\ UNCHANGED hostFrame

\* the user cancels the progress notification
XCancel ==
  /\ hpc \in {"xscanning", "xcleaning"}
  /\ ~cancelled
  /\ cancelled' = TRUE
  /\ UNCHANGED <<files, hpc, ncmd, withPreview, loopVars, lastScan, removalVars, written>>
  /\ UNCHANGED hostFrame

\* one iteration of the loop of scanWorkspace
XScanStep ==
  /\ hpc = "xscanning"
  /\ bi < Len(files)
  /\ ~cancelled
  /\ reports' = Append(reports, bi)
  /\ LET file == FileAt(bi)
     IN  IF ~file.opens
         THEN /\ bi' = NextAfterError(bi)
              /\ UNCHANGED findings
         ELSE /\ findings' = IF file.occs > 0
                             THEN Append(findings, [file |-> bi, occurrences |-> file.occs])
                             ELSE findings
              /\ bi' = bi + 1
  /\ UNCHANGED <<files, hpc, ncmd, withPreview, total, processedFiles, skippedFiles,
                 errors, cancelled, lastScan, removalVars, written>>
  /\ UNCHANGED hostFrame

\* the loop of scanWorkspace ends, or is left by break on cancellation
XScanExit ==
  /\ hpc = "xscanning"
  /\ ~(bi < Len(files)) \/ cancelled
  /\ hpc' = "xscanned"
  /\ UNCHANGED <<files, ncmd, withPreview, loopVars, cancelled, lastScan, removalVars, written>>
  /\ UNCHANGED hostFrame

\* return results; showScanResults(results)
XScanReturn ==
  /\ hpc = "xscanned"
  /\ hpc' = "idle"
  /\ UNCHANGED <<files, ncmd, withPreview, loopVars, cancelled, lastScan, removalVars, written>>
  /\ UNCHANGED hostFrame

\* no-logs-clean.cleanupWorkspace: the warning dialog
XCleanupCommand ==
  /\ CanInvoke("noLogsClean")
  /\ ncmd' = ncmd + 1
  /\ choice' = "none"
  /\ hpc' = "xconfirmAll"
  /\ UNCHANGED <<files, withPreview, loopVars, cancelled, lastScan, pending, pfi,
                 successfulRemovals, failedRemovals, written>>
  /\ UNCHANGED hostFrame

\* response === 'Yes, Clean Everything': cleanupWorkspace() up to the entry
\* of its loop. With createBackups it makes a new backup directory first;
\* made is whether mkdirSync succeeded, and its exception ends the command.
XConfirmAllAnswer ==
  /\ hpc = "xconfirmAll"
  /\ \E c \in {"Yes, Clean Everything", "Cancel", "dismissed"} : \E made \in BOOLEAN :
       /\ choice' = c
       /\ IF c = "Yes, Clean Everything" /\ (createBackups => made)
          THEN /\ hpc' = "xcleaning"
               /\ LoopEntry
               /\ backups' = {}
          ELSE /\ hpc' = "idle"
               /\ UNCHANGED <<loopVars, cancelled, backups>>
  /\ UNCHANGED <<files, ncmd, withPreview, lastScan, pending, pfi,
                 successfulRemovals, failedRemovals, written>>
  /\ UNCHANGED <<scanVars, procVars, callVars, cleanVars, variant, selection, createBackups>>

\* cleanupFile(file k): the file is read, which fails for a file that cannot
\* be opened, and is written when cleaning changed its content; occs counts
\* what cleaning removes from the file
CleanupFile(k) ==
  IF FileAt(k).opens /\ FileAt(k).occs > 0
  THEN /\ written' = written \cup {k}
       /\ \E left \in 0..(FileAt(k).occs - 1) :
            files' = [files EXCEPT ![k + 1].occs = left]
  ELSE UNCHANGED <<written, files>>

\* one iteration of the loop of cleanupWorkspace. With createBackups the
\* file is copied to the backup directory first; copied is whether
\* copyFileSync succeeded for a readable file. An exception of the copy or
\* of cleanupFile is caught and the loop goes on.
XCleanStep ==
  /\ hpc = "xcleaning"
  /\ bi < Len(files)
  /\ ~cancelled
  /\ reports' = Append(reports, bi)
  /\ \E copied \in BOOLEAN :
       IF createBackups /\ ~(FileAt(bi).opens /\ copied)
       THEN /\ bi' = NextAfterError(bi)
            /\ UNCHANGED <<written, files, backups>>
       ELSE /\ backups' = IF createBackups THEN backups \cup {bi} ELSE backups
            /\ CleanupFile(bi)
            /\ bi' = IF FileAt(bi).opens THEN bi + 1 ELSE NextAfterError(bi)
  /\ UNCHANGED <<hpc, ncmd, withPreview, findings, total, processedFiles, skippedFiles,
                 errors, cancelled, lastScan, removalVars>>
  /\ UNCHANGED <<scanVars, procVars, callVars, cleanVars, variant, selection, createBackups>>

\* the loop of cleanupWorkspace ends, or is left by break on cancellation;
\* showCleanupResults(results)
XCleanExit ==
  /\ hpc = "xcleaning"
  /\ ~(bi < Len(files)) \/ cancelled
  /\ hpc' = "idle"
  /\ UNCHANGED <<files, ncmd, withPreview, loopVars, cancelled, lastScan, removalVars, written>>
  /\ UNCHANGED hostFrame

\* no-logs-clean.cleanupCurrentFile: without an active editor the command
\* returns; otherwise the dialog is shown for the editor's file
XCleanCurrentCommand ==
  /\ CanInvoke("noLogsClean")
  /\ ncmd' = ncmd + 1
  /\ choice' = "none"
  /\ \/ /\ hpc' = "idle"
        /\ UNCHANGED pending
     \/ \E k \in 0..(Len(files) - 1) :
          /\ pending' = <<[file |-> k, occurrences |-> FileAt(k).occs]>>
          /\ hpc' = "xconfirmCurrent"
  /\ UNCHANGED <<files, withPreview, loopVars, cancelled, lastScan, pfi,
                 successfulRemovals, failedRemovals, written>>
  /\ UNCHANGED hostFrame

\* response === 'Yes'
XConfirmCurrentAnswer ==
  /\ hpc = "xconfirmCurrent"
  /\ \E c \in {"Yes", "Cancel", "dismissed"} :
       /\ choice' = c
       /\ IF c = "Yes"
          THEN CleanupFile(pending[1].file)
          ELSE UNCHANGED <<written, files>>
  /\ hpc' = "idle"
  /\ UNCHANGED <<ncmd, withPreview, loopVars, cancelled, lastScan, pending, pfi,
                 successfulRemovals, failedRemovals>>
  /\ UNCHANGED hostFrame

--------------------------------------------------------------------------
(* src/unnamed/part_001: applyCleanup, the cleanup that works by regular    *)
(* expressions                                                              *)

\* applyCleanup() up to the entry of its loop; it returns at once when no
\* file was found. A failure to make the backup directory is only logged.
ApplyCleanup ==
  /\ CanInvoke("regexCleanup")
  /\ ncmd' = ncmd + 1
  /\ LoopEntry
  /\ backups' = {}
  /\ hpc' = IF Len(files) = 0 THEN "idle" ELSE "rcleaning"
  /\ UNCHANGED <<files, withPreview, lastScan, removalVars, written>>
  /\ UNCHANGED <<scanVars, procVars, callVars, cleanVars, variant, selection, createBackups>>

\* the user cancels the progress notification of applyCleanup
RCancel ==
  /\ hpc = "rcleaning"
  /\ ~cancelled
  /\ cancelled' = TRUE
  /\ UNCHANGED <<files, hpc, ncmd, withPreview, loopVars, lastScan, removalVars, written>>
  /\ UNCHANGED hostFrame

\* one iteration of the loop of applyCleanup: a file that cannot be read is
\* passed over; the content is written to the backup directory, saved is
\* whether that succeeded, and a failure is only logged; the cleaned content
\* is written when it differs, wrote is whether that write succeeded
RCleanStep ==
  /\ hpc = "rcleaning"
  /\ bi < Len(files)
  /\ ~cancelled
  /\ reports' = Append(reports, bi)
  /\ IF ~FileAt(bi).opens
     THEN UNCHANGED <<written, files, backups>>
     ELSE \E saved, wrote \in BOOLEAN :
            /\ backups' = IF saved THEN backups \cup {bi} ELSE backups
            /\ IF wrote
               THEN CleanupFile(bi)
               ELSE UNCHANGED <<written, files>>
  /\ bi' = bi + 1
  /\ UNCHANGED <<hpc, ncmd, withPreview, findings, total, processedFiles, skippedFiles,
                 errors, cancelled, lastScan, removalVars>>
  /\ UNCHANGED <<scanVars, procVars, callVars, cleanVars, variant, selection, createBackups>>

\* the loop of applyCleanup ends, or is left by break on cancellation
RCleanExit ==
  /\ hpc = "rcleaning"
  /\ ~(bi < Len(files)) \/ cancelled
  /\ hpc' = "idle"
  /\ UNCHANGED <<files, ncmd, withPreview, loopVars, cancelled, lastScan, removalVars, written>>
  /\ UNCHANGED hostFrame

HostNext ==
  \/ ScanCommand
  \/ CleanCommand
  \/ ScanLoopStep
  \/ ScanLoopEnd
  \/ PreviewPick
  \/ ConfirmAnswer
  \/ RemoveStep
  \/ RemoveEnd
  \/ XScanCommand
  \/ XCancel
  \/ XScanStep
  \/ XScanExit
  \/ XScanReturn
  \/ XCleanupCommand
  \/ XConfirmAllAnswer
  \/ XCleanStep
  \/ XCleanExit
  \/ XCleanCurrentCommand
  \/ XConfirmCurrentAnswer

HostSpec == HostInit /\ [][HostNext]_vars

--------------------------------------------------------------------------
(* Claims about the commands *)

FileIndexes == 0..(Len(files) - 1)

\* the loop over the files of a workspace scan is over
ScanDone ==
  \/ hpc = "scanning" /\ ~(bi < Len(files))
  \/ hpc = "xscanned"

\* the number of iterations of the loop that were given file k
Visits(k) == Cardinality({n \in 1..Len(reports) : reports[n] = k})

\* opening or scanning file k throws inside the try block of the loop
Failed(k) ==
  /\ ~FileAt(k).opens
  /\ variant = "noLogs" => ~FileAt(k).output

\* file k is passed over by the .output or by the size filter of noLogs
Filtered(k) ==
  /\ variant = "noLogs"
  /\ FileAt(k).output \/ (FileAt(k).opens /\ FileAt(k).big)

\* the scan holds no result for file k
NoMatches(k) == \A n \in 1..Len(findings) : findings[n].file # k

\* the occurrences of file k are in the results of the scan, once
Recorded(k) ==
  IF FileAt(k).occs = 0
  THEN NoMatches(k)
  ELSE Cardinality({n \in 1..Len(findings) :
         findings[n] = [file |-> k, occurrences |-> FileAt(k).occs]}) = 1

\* a file failed in the scan that is over
FailureSeen == ScanDone /\ \E k \in FileIndexes : Failed(k) /\ Visits(k) > 0

\* C19 as stated: when a file failed during a workspace scan, the failing
\* file has no matches, and every other file of the list was visited exactly
\* once and has its occurrences recorded
C19_Isolation ==
  FailureSeen =>
    \A k \in FileIndexes :
      /\ Visits(k) = 1
      /\ Failed(k) => NoMatches(k)
      /\ ~Failed(k) => Recorded(k)

\* C19 amended: when a file failed during a workspace scan, the failing file
\* has no matches; unless the user cancelled the scan every file of the list
\* was visited exactly once, and never more than once; every other visited
\* file has its occurrences recorded, unless the .output or the size filter
\* passed it over, and then it has no matches
C19_IsolationUnlessSkipped ==
  FailureSeen =>
    \A k \in FileIndexes :
      /\ Visits(k) <= 1
      /\ ~cancelled => Visits(k) = 1
      /\ Failed(k) \/ Filtered(k) => NoMatches(k)
      /\ Visits(k) = 1 /\ ~Failed(k) /\ ~Filtered(k) => Recorded(k)

\* a scan is over in which a file failed and a later file with occurrences
\* was recorded
C19_Witness ==
  /\ ScanDone
  /\ \E k, m \in FileIndexes :
       /\ k < m
       /\ Failed(k) /\ Visits(k) = 1
       /\ FileAt(m).occs > 0 /\ Recorded(m)

\* the affirmative options of the three confirmation dialogs
Affirmative == {"Remove All", "Yes, Clean Everything", "Yes"}

\* a file is edited or saved in this step
FileWritten == written' # written \/ files' # files

\* while files are being cleaned the answer of the dialog was its affirmative
\* option
C20_Answered ==
  /\ hpc = "removing" => choice = "Remove All"
  /\ hpc = "xcleaning" => choice = "Yes, Clean Everything"

\* a step that edits or saves a file is a step of a clean loop, or the answer
\* Yes to the dialog of cleanupCurrentFile; a step that answers a dialog
\* otherwise than with its affirmative option changes no file and ends the
\* command
C20_Step ==
  /\ FileWritten =>
       \/ hpc \in {"removing", "xcleaning"} /\ choice' = choice
       \/ hpc = "xconfirmCurrent" /\ choice' = "Yes"
  /\ (hpc \in {"confirm", "xconfirmAll", "xconfirmCurrent"} /\ choice' \notin Affirmative) =>
       /\ ~FileWritten
       /\ hpc' = "idle"

\* C20: no file is edited or saved by the clean commands unless the user chose
\* the affirmative option of the confirmation dialog; dismissing the dialog
\* or choosing Cancel leaves every file unchanged
C20_ConfirmationGate == [](C20_Answered) /\ [][C20_Step]_vars

\* a clean command has written a file after the affirmative answer, and the
\* dialog of the next one was dismissed or cancelled
C20_Witness ==
  /\ written # {}
  /\ ncmd = 2
  /\ hpc = "idle"
  /\ choice \in {"Cancel", "dismissed"}

--------------------------------------------------------------------------
(* The preview of noLogs.scan *)

\* the command noLogs.scan is running: withPreview is the argument of the
\* call of runScanAndMaybeClean that is under way
InScanCommand == withPreview /\ hpc # "idle"

\* noLogs.scan is scanning or showing its preview, never confirming or
\* removing
C21_Phases == InScanCommand => hpc \in {"scanning", "preview"}

\* a step of noLogs.scan changes no file and stores nothing on disk; the
\* cache lastScan is only ever replaced by the findings of the scan
C21_Step ==
  (InScanCommand \/ InScanCommand') =>
    /\ UNCHANGED <<files, written, backups>>
    /\ lastScan' # lastScan => lastScan' = findings
    /\ selection' # selection => hpc = "preview"

\* C21: the command noLogs.scan, the scan followed by the quick-pick preview,
\* never deletes, edits or saves file content, whatever item the user
\* selects; it only replaces the cached lastScan and moves the editor
\* selection
C21_PreviewReadOnly == [](C21_Phases) /\ [][C21_Step]_vars

\* the user has selected an item of the preview: the selection has moved,
\* the scan is cached, and the file still holds its occurrences
C21_Witness ==
  /\ withPreview
  /\ hpc = "idle"
  /\ selection # NoSelection
  /\ lastScan # <<>>
  /\ written = {}
  /\ FileAt(selection.file).occs > 0

--------------------------------------------------------------------------
(* Workspace cleanup with backups: cleanupWorkspace of src/src/extension.ts *)
(* and applyCleanup of src/unnamed/part_001                                 *)

BackupInit ==
  /\ text = <<>>
  /\ ScanInit
  /\ ProcInit
  /\ NoCalls
  /\ CleanOff
  /\ variant \in {"noLogsClean", "regexCleanup"}
  /\ files \in Workspaces
  /\ hpc = "idle"
  /\ ncmd = 0
  /\ withPreview = FALSE
  /\ bi = 0
  /\ findings = <<>>
  /\ total = 0
  /\ processedFiles = 0
  /\ skippedFiles = 0
  /\ errors = 0
  /\ reports = <<>>
  /\ cancelled = FALSE
  /\ lastScan = <<>>
  /\ pending = <<>>
  /\ choice = "none"
  /\ pfi = 0
  /\ successfulRemovals = 0
  /\ failedRemovals = 0
  /\ written = {}
  /\ selection = NoSelection
  /\ createBackups \in BOOLEAN
  /\ backups = {}

BackupNext ==
  \/ XCleanupCommand
  \/ XConfirmAllAnswer
  \/ XCancel
  \/ XCleanStep
  \/ XCleanExit
  \/ ApplyCleanup
  \/ RCancel
  \/ RCleanStep
  \/ RCleanExit

BackupSpec == BackupInit /\ [][BackupNext]_vars

\* file k is given new content in this step
FileChanged(k) == files'[k + 1] # files[k + 1]

\* the step belongs to the loop of a workspace cleanup
InCleanup == hpc \in {"xcleaning", "rcleaning"}

\* C22: in a workspace cleanup the cleaned content of a file is written only
\* when a backup copy of the file's original content has been stored in this
\* cleanup; a file whose backup failed is not modified
C22_Step ==
  InCleanup => \A k \in FileIndexes : FileChanged(k) => k \in backups'

C22_BackupFirst == [][C22_Step]_vars

--------------------------------------------------------------------------
(* Repeated invocations of scanConsoleLogsInText.  JavaScript runs one      *)
(* synchronous call to completion before the next one starts, so            *)
(* invocations on the texts of different files follow one another.          *)

MaxCalls == 2

PureTexts ==
  { <<>>,
    CALL,
    <<"\n">> \o CALL,
    CALL \o <<";", "\n">>,
    <<"'">> \o CALL,
    <<"\n", "\n">> \o CALL \o <<";">> \o CALL }

PureInit ==
  /\ text \in PureTexts
  /\ ScanInit
  /\ ProcInit
  /\ HostOff
  /\ NoCalls
  /\ CleanOff

\* the line counter is a variable of the module that keeps its value from
\* one invocation to the next
LineAtEntry_Kept(ln) == ln

\* let line = 0: the line counter is a local of tokenizeCode
LineAtEntry(ln) == 0

\* the invocation that has returned is recorded, and scanConsoleLogsInText
\* is invoked on another text: tokens, i and line are fresh locals of
\* tokenizeCode, statements and i fresh locals of findConsoleStatements
ScanAgain ==
  /\ pc = "done"
  /\ Cardinality(calls \cup {[text |-> text, result |-> result]}) <= MaxCalls
  /\ calls' = calls \cup {[text |-> text, result |-> result]}
  /\ text' \in PureTexts
  /\ pc' = "tokenize"
  /\ i' = 0
  /\ line' = LineAtEntry(line)
  /\ tokens' = <<>>
  /\ fi' = 0
  /\ statements' = <<>>
  /\ result' = <<>>
  /\ error' = FALSE
  /\ UNCHANGED <<procVars, hostVars, cleanVars>>

PureNext == TokenizeStep \/ TokenizeReturn \/ FindStep \/ ScanReturn \/ ScanAgain

PureSpec == PureInit /\ [][PureNext]_vars

\* C23: two invocations of scanConsoleLogsInText on equal text return equal
\* occurrence lists, whatever invocations on other texts came before or
\* between them
C23_Deterministic ==
  /\ \A a, b \in calls : a.text = b.text => a.result = b.result
  /\ Returned => \A a \in calls : a.text = text => a.result = result

\* a text with occurrences was scanned, then a different text, then the
\* first text again
C23_Witness ==
  /\ Returned
  /\ result # <<>>
  /\ [text |-> text, result |-> result] \in calls
  /\ \E b \in calls : b.text # text /\ Len(b.text) > 0

--------------------------------------------------------------------------
(* Progress of the two loops of the scanner *)

MaxLiveFrags == 2

\* fragments that leave a string, a template, a comment or a call open, or
\* end the text in the middle of an escape
LiveFragments ==
  { <<"c","o","n","s","o","l","e",".","l","o","g","(">>,
    <<")">>,
    <<";">>,
    <<"\n">>,
    <<"'">>,
    <<"\\">>,
    <<Backtick>>,
    <<"$","{">>,
    <<"/","*">> }

LiveInputs ==
  { Concat(fs) : fs \in UNION { [1..n -> LiveFragments] : n \in 0..MaxLiveFrags } }

LiveInit ==
  /\ text \in LiveInputs
  /\ ScanInit
  /\ ProcInit
  /\ HostOff
  /\ NoCalls
  /\ CleanOff

\* a call of tokenizeCode that has started runs on: JavaScript executes the
\* synchronous function until it returns
FairSpec == LiveInit /\ [][Next]_vars /\ WF_vars(TokenizeStep \/ TokenizeReturn)

\* the cursor is at most one past the end of the text (after an escape at
\* the very end), and every token emitted so far took at least one
\* character: the main loop makes at most Len(text) iterations
C24_Variant ==
  /\ i <= Len(text) + 1
  /\ Len(tokens) <= i
  /\ pc = "find" => fi <= Len(tokens)

\* an iteration of the main loop of tokenizeCode emits exactly one token and
\* moves the cursor forward; an iteration of the loop of
\* findConsoleStatements moves the token index forward
C24_Step ==
  /\ (pc = "tokenize" /\ pc' = "tokenize") =>
       /\ Len(tokens') = Len(tokens) + 1
       /\ SubSeq(tokens', 1, Len(tokens)) = tokens
       /\ i' > i
  /\ (pc = "find" /\ pc' = "find") => fi' > fi

\* C24: tokenizeCode terminates on every input; every iteration of its main
\* loop emits exactly one token and strictly advances the cursor, and
\* findConsoleStatements never moves its token index backwards
C24_Terminates ==
  /\ [](C24_Variant)
  /\ [][C24_Step]_vars
  /\ <>(pc # "tokenize")

\* the tokenizer has returned after an iteration that moved the cursor by
\* more than one character, and the extractor has skipped over a statement
C24_Witness ==
  /\ pc = "find"
  /\ fi = Len(tokens)
  /\ Len(tokens) >= 2
  /\ Len(tokens) < Len(text)
  /\ TokAt(tokens, fi - 1).type = "paren_close"
  /\ statements # <<>>

--------------------------------------------------------------------------
(* Lexical rules of the tokenizer, stated on the text *)

\* the number of backslashes that stand directly before offset p, counted
\* back no further than the character after offset a
BackslashRun(s, a, p) ==
  Cardinality({n \in 1..(p - a - 1) :
                 \A j \in 1..n : CharAt(s, p - j) = "\\"})

\* the character at offset p is escaped in the string opened at offset a
Escaped(s, a, p) == BackslashRun(s, a, p) % 2 = 1

\* offsets of the unescaped quotes q after the opening quote at offset a
UnescapedQuotes(s, a, q) ==
  {p \in (a + 1)..(Len(s) - 1) : CharAt(s, p) = q /\ ~Escaped(s, a, p)}

RECURSIVE TemplateStates(_, _)
TemplateStates(s, st) ==
  IF st.brk \/ ~InText(s, st) THEN <<st>>
  ELSE <<st>> \o TemplateStates(s, TemplateBody(s, st))

\* the states of the loop that scans the template opened at offset a
TemplateTrace(s, a) == TemplateStates(s, LoopState(a + 1, 0, 0))

\* what one iteration at state st does to the depth, and whether it closes
\* the template, as the claim describes it; c is the character at the
\* cursor, which no escape has consumed
DepthRule(s, st, nx) ==
  LET c == CharAt(s, st.i)
  IN  /\ nx.braceDepth =
           IF c = "$" /\ CharAt(s, st.i + 1) = "{" THEN st.braceDepth + 1
           ELSE IF c = "}" /\ st.braceDepth > 0 THEN st.braceDepth - 1
           ELSE st.braceDepth
      /\ nx.brk <=> (c = Backtick /\ st.braceDepth = 0)

\* C26: while a template literal is scanned, every ${ at the cursor
\* increments the depth and every } at a depth above 0 decrements it; the
\* depth is never negative; a backtick closes the token only at depth 0, so
\* the scan goes on after a backtick met inside an open ${ } expression
C26_TemplateDepth ==
  Tokenized =>
    \A k \in 1..Len(tokens) :
      tokens[k].type = "template" =>
        LET tr == TemplateTrace(text, tokens[k].start)
        IN  /\ tr[Len(tr)].i = tokens[k].end
            /\ \A n \in 1..Len(tr) : tr[n].braceDepth >= 0
            /\ \A n \in 1..(Len(tr) - 1) :
                 /\ CharAt(text, tr[n].i) # "\\" => DepthRule(text, tr[n], tr[n + 1])
                 /\ CharAt(text, tr[n].i) = "\\" =>
                      (tr[n + 1].braceDepth = tr[n].braceDepth /\ ~tr[n + 1].brk)
                 /\ (CharAt(text, tr[n].i) = Backtick /\ tr[n].braceDepth > 0) =>
                      (~tr[n + 1].brk /\ tr[n + 1].i = tr[n].i + 1)

\* a template token that holds a backtick met at depth 1 and is closed by a
\* later backtick at depth 0
C26_Witness ==
  /\ Tokenized
  /\ \E k \in 1..Len(tokens) :
       /\ tokens[k].type = "template"
       /\ tokens[k].end <= Len(text)
       /\ LET tr == TemplateTrace(text, tokens[k].start)
          IN  /\ tr[Len(tr)].brk
              /\ \E n \in 1..(Len(tr) - 1) :
                   CharAt(text, tr[n].i) = Backtick /\ tr[n].braceDepth = 1


\* token k (1-based) is a block comment
IsBlockComment(k) ==
  /\ tokens[k].type = "comment"
  /\ CharAt(text, tokens[k].start) = "/"
  /\ CharAt(text, tokens[k].start + 1) = "*"

\* offsets of the */ pairs that begin at or after the character that
\* follows the opener at offset a
CommentClosers(s, a) ==
  {p \in (a + 2)..(Len(s) - 2) : CharAt(s, p) = "*" /\ CharAt(s, p + 1) = "/"}

\* the number of newline characters in the sequence v
NewlinesIn(v) == Cardinality({p \in 1..Len(v) : v[p] = "\n"})

\* the line counter right after token k was pushed
LineAfter(k) == IF k < Len(tokens) THEN tokens[k + 1].line ELSE line

\* C27: a block comment token ends right after the first */ that begins at
\* or after the character following its opener, or at the end of the input
\* when there is none; the line counter advances by one for every newline
\* in the comment
C27_BlockComment ==
  Tokenized =>
    \A k \in 1..Len(tokens) :
      IsBlockComment(k) =>
        LET closers == CommentClosers(text, tokens[k].start)
        IN  /\ tokens[k].end = IF closers = {} THEN Len(text)
                               ELSE SetMin(closers) + 2
            /\ LineAfter(k) = tokens[k].line + NewlinesIn(tokens[k].value)

\* a block comment that begins with /*/ , is closed by a later */ and is
\* followed by another token
C27_Witness ==
  /\ Tokenized
  /\ \E k \in 1..(Len(tokens) - 1) :
       /\ IsBlockComment(k)
       /\ CharAt(text, tokens[k].start + 2) = "/"
       /\ CommentClosers(text, tokens[k].start) # {}
       /\ tokens[k].end > tokens[k].start + 4

--------------------------------------------------------------------------
(* Identifiers: texts made of names around the receiver and the method      *)

MaxIdentFrags == 3

IdentFragments ==
  { CONSOLE,
    <<"m","y">>,
    <<"2">>,
    <<"X">>,
    <<"$">>,
    <<" ">>,
    <<".","l","o","g","(","x",")">>,
    <<".","l","o","g","s","(","x",")">>,
    <<".","w","a","r","n","2","(","x",")">> }

IdentInputs ==
  { Concat(fs) : fs \in UNION { [1..n -> IdentFragments] : n \in 0..MaxIdentFrags } }

IdentInit ==
  /\ text \in IdentInputs
  /\ ScanInit
  /\ ProcInit
  /\ HostOff
  /\ NoCalls
  /\ CleanOff

IdentSpec == IdentInit /\ [][Next]_vars

\* the offsets of the block of identifier characters around offset p
IdentBlock(s, p) ==
  {q \in 0..(Len(s) - 1) :
     \A r \in Min(p, q)..Max(p, q) : IsIdentPart(CharAt(s, r))}

\* offset p begins an identifier run [A-Za-z_$][A-Za-z0-9_$]*: it is the
\* first character of its block that can start an identifier
BeginsRun(s, p) ==
  /\ IsIdentStart(CharAt(s, p))
  /\ \A q \in IdentBlock(s, p) : q < p => ~IsIdentStart(CharAt(s, q))

\* the identifier run that begins at offset p
RunAt(s, p) == Slice(s, p, SetMax(IdentBlock(s, p)) + 1)

\* token k (1-based) was pushed by the identifier branch
IsIdentifierToken(k) ==
  /\ tokens[k].type \in {"console", "method", "other"}
  /\ IsIdentStart(tokens[k].value[1])

\* C28: every identifier token is a whole identifier run, and it is of type
\* console only when the run is exactly console, of type method only when
\* the run is in CONSOLE_METHODS, and of type other otherwise; an occurrence
\* starts at a run that is exactly console, never inside a longer name
C28_MaximalRun ==
  /\ Tokenized =>
       \A k \in 1..Len(tokens) :
         IsIdentifierToken(k) =>
           LET name == RunAt(text, tokens[k].start)
           IN  /\ BeginsRun(text, tokens[k].start)
               /\ tokens[k].value = name
               /\ tokens[k].type = "console" <=> name = CONSOLE
               /\ tokens[k].type = "method" <=> name \in CONSOLE_METHODS
  /\ Returned =>
       \A k \in 1..Len(result) :
         /\ BeginsRun(text, result[k].startIndex)
         /\ RunAt(text, result[k].startIndex) = CONSOLE

\* the text holds console.log(x) with the receiver inside a longer name,
\* and nothing was found
C28_Witness ==
  /\ Returned
  /\ result = <<>>
  /\ \E p \in 0..(Len(text) - 1) :
       /\ Slice(text, p, p + Len(CONSOLE)) = CONSOLE
       /\ IsIdentPart(CharAt(text, p + Len(CONSOLE)))
       /\ Slice(text, p + Len(CONSOLE) + 1, p + Len(CONSOLE) + 8)
            = <<".","l","o","g","(","x",")">>

--------------------------------------------------------------------------
(* Gaps: the call console.log(x) with text between its parts               *)

MaxGap == 1

\* what may stand in a gap: a newline, a block comment between blanks, a
\* line comment with the newline that ends it, an operator, a string
GapFragments ==
  { <<"\n">>,
    <<" ", "/", "*", "c", "*", "/", " ">>,
    <<"/", "/", "c", "\n">>,
    <<"+">>,
    <<"'", "s", "'">> }

Gaps == { Concat(fs) : fs \in UNION { [1..n -> GapFragments] : n \in 0..MaxGap } }

GapInputs ==
  { CONSOLE \o g1 \o <<".">> \o g2 \o <<"l","o","g">> \o g3 \o <<"(","x",")">> :
      g1 \in Gaps, g2 \in Gaps, g3 \in Gaps }

GapInit ==
  /\ text \in GapInputs
  /\ ScanInit
  /\ ProcInit
  /\ HostOff
  /\ NoCalls
  /\ CleanOff

GapSpec == GapInit /\ [][Next]_vars

\* a token that is neither whitespace nor comment
IsSolid(t) == t.type \notin {"whitespace", "comment"}

\* the values of the tokens that are neither whitespace nor comment
SolidValues(toks) ==
  LET solid == SelectSeq(toks, IsSolid)
  IN  [k \in 1..Len(solid) |-> solid[k].value]

\* the parts of the call, with nothing but whitespace and comments between
BareCall == <<CONSOLE, <<".">>, <<"l","o","g">>, <<"(">>, <<"x">>, <<")">>>>

\* C29: when only whitespace, newlines and comments stand between the
\* receiver, the dot, the method name and the opening parenthesis, the call
\* is one occurrence that starts at the receiver; any other token in one of
\* the gaps abandons the candidate
C29_Trivia ==
  Returned =>
    IF SolidValues(tokens) = BareCall
    THEN /\ Len(result) = 1
         /\ result[1].startIndex = 0
         /\ result[1].endIndex = Len(text)
         /\ result[1].method = <<"l","o","g">>
    ELSE result = <<>>

\* the call was found with a block comment, a line comment and a newline in
\* its gaps
C29_Witness ==
  /\ Returned
  /\ Len(result) = 1
  /\ \E k \in 1..Len(tokens) : tokens[k].type = "comment" /\ tokens[k].value[2] = "*"
  /\ \E k \in 1..Len(tokens) : tokens[k].type = "comment" /\ tokens[k].value[2] = "/"
  /\ Len(tokens) >= 12

--------------------------------------------------------------------------
(* The shape of every occurrence returned                                  *)

\* the indices of the tokens of one type that lie within [from, to)
TokensIn(toks, type, from, to) ==
  { k \in 1..Len(toks) :
      toks[k].type = type /\ toks[k].start >= from /\ toks[k].end <= to }

\* the offset at which the call's opening parenthesis stands: the first
\* paren_open token of the occurrence
CallOpens(o) ==
  LET opens == TokensIn(tokens, "paren_open", o.startIndex, o.endIndex)
  IN  tokens[CHOOSE k \in opens : \A q \in opens : k <= q].start

\* the offset after the call's closing parenthesis: the last paren_close
\* token of the occurrence
CallCloses(o) ==
  LET closes == TokensIn(tokens, "paren_close", o.startIndex, o.endIndex)
  IN  tokens[CHOOSE k \in closes : \A q \in closes : k >= q].end

\* C30: every occurrence returned has startIndex < endIndex <= length(text),
\* starts where a token of type console starts, and holds as many paren_open
\* tokens as paren_close tokens from the call's opening parenthesis to its
\* closing parenthesis
C30_MatchShape ==
  Returned =>
    \A n \in 1..Len(result) :
      LET o == result[n]
      IN  /\ o.startIndex < o.endIndex
          /\ o.endIndex <= Len(text)
          /\ \E k \in 1..Len(tokens) :
               tokens[k].type = "console" /\ tokens[k].start = o.startIndex
          /\ TokensIn(tokens, "paren_open", o.startIndex, o.endIndex) # {}
          /\ TokensIn(tokens, "paren_close", o.startIndex, o.endIndex) # {}
          /\ CallOpens(o) < CallCloses(o)
          /\ Cardinality(TokensIn(tokens, "paren_open", CallOpens(o), CallCloses(o)))
               = Cardinality(TokensIn(tokens, "paren_close", CallOpens(o), CallCloses(o)))

\* an occurrence whose arguments hold a second call, parentheses included,
\* was returned
C30_Witness ==
  /\ Returned
  /\ \E n \in 1..Len(result) :
       /\ Cardinality(TokensIn(tokens, "paren_open",
                               result[n].startIndex, result[n].endIndex)) >= 2
       /\ Cardinality(TokensIn(tokens, "console",
                               result[n].startIndex, result[n].endIndex)) >= 2
       /\ CallCloses(result[n]) = result[n].endIndex

--------------------------------------------------------------------------
(* processFile on files whose calls share lines with other text and with    *)
(* each other                                                               *)

MaxLineFrags == 4

\* a word, a space, a terminator, a line break, a call, a call that goes on
\* after a line break, and a closing parenthesis
LineFragments ==
  { <<"a">>,
    <<" ">>,
    <<";">>,
    <<"\n">>,
    <<"c","o","n","s","o","l","e",".","l","o","g","(","x",")">>,
    <<"c","o","n","s","o","l","e",".","l","o","g","(","\n">>,
    <<")">> }

LineInputs ==
  { Concat(fs) : fs \in UNION { [1..n -> LineFragments] : n \in 0..MaxLineFrags } }

LineInit ==
  /\ text \in LineInputs
  /\ ScanInit
  /\ ProcInit
  /\ HostOff
  /\ NoCalls
  /\ CleanOff

LineSpec == LineInit /\ [][FileNext]_vars

\* text that is not white space stands before occurrence o on the line where
\* o starts, and nothing but white space follows o on the line where it ends
AtEndOfLine(s, o) ==
  /\ ~IsBlank(Slice(s, LineStartOf(s, o.startIndex), o.startIndex))
  /\ IsBlank(Slice(s, o.endIndex, LineEndOf(s, o.endIndex)))

\* C31 - End-of-line rule: for an occurrence with other text before it on
\* its line and only white space after it (its terminator is part of the
\* occurrence), the removal queued deletes from the start of the occurrence
\* through the end of the line, line break included, and so leaves the text
\* before the occurrence as it is.
C31_EndOfLine ==
  Queued =>
    \A k \in 1..Len(edits) :
      AtEndOfLine(doc, sorted[k]) =>
        /\ edits[k].newText = <<>>
        /\ EditSpan(doc, edits[k]).a = sorted[k].startIndex
        /\ EditSpan(doc, edits[k]).b =
             Min(LineEndOf(doc, sorted[k].endIndex) + 1, Len(doc))

\* C32 - Removal ranges of one file are pairwise disjoint: no two of the
\* ranges queued for the occurrences of one scan of the document share a
\* character, and the edit built from them is never refused.
C32_Disjoint ==
  /\ Queued =>
       \A k, l \in 1..Len(edits) :
         k < l =>
           \/ EditSpan(doc, edits[k]).b <= EditSpan(doc, edits[l]).a
           \/ EditSpan(doc, edits[l]).b <= EditSpan(doc, edits[k]).a
  /\ pc # "failed"

\* the removals of two occurrences that share a line are queued, one of
\* them for an occurrence that began on the line before
C32_Witness ==
  /\ Queued
  /\ \E k, l \in 1..Len(edits) :
       /\ k # l
       /\ LineStartOf(doc, sorted[k].endIndex) = LineStartOf(doc, sorted[l].startIndex)
       /\ LineStartOf(doc, sorted[k].startIndex) < LineStartOf(doc, sorted[k].endIndex)

--------------------------------------------------------------------------
(* noLogs.scan and noLogs.clean on a workspace of one file whose text the   *)
(* user edits between commands.  Here an entry of lastScan holds the        *)
(* occurrences themselves, with their offsets, as in the source, and the    *)
(* file is given by its text instead of an entry of files.  The locals of a *)
(* function end when it returns.                                            *)

MaxCacheFrags == 2

\* a line of other text, a call and a terminator
CacheFragments ==
  { <<"a", "\n">>,
    <<"c","o","n","s","o","l","e",".","l","o","g","(","x",")">>,
    <<";">> }

CacheInputs ==
  { Concat(fs) : fs \in UNION { [1..n -> CacheFragments] : n \in 0..MaxCacheFrags } }

\* the findings of the scan loop of runScanAndMaybeClean over the one file,
\* whose scan returned occurrences
FindingsOf(occurrences) ==
  IF Len(occurrences) > 0
  THEN <<[file |-> 0, occurrences |-> occurrences]>>
  ELSE <<>>

CacheInit ==
  /\ text \in CacheInputs
  /\ ScanInit
  /\ ProcInit
  /\ NoCalls
  /\ CleanOff
  /\ variant = "noLogs"
  /\ files = <<>>
  /\ hpc = "idle"
  /\ ncmd = 0
  /\ withPreview = FALSE
  /\ bi = 0
  /\ findings = <<>>
  /\ total = 0
  /\ processedFiles = 0
  /\ skippedFiles = 0
  /\ errors = 0
  /\ reports = <<>>
  /\ cancelled = FALSE
  /\ lastScan = <<>>
  /\ pending = <<>>
  /\ choice = "none"
  /\ pfi = 0
  /\ successfulRemovals = 0
  /\ failedRemovals = 0
  /\ written = {}
  /\ selection = NoSelection
  /\ createBackups = TRUE
  /\ backups = {}

\* what no step on the one-file workspace changes
cacheFrame ==
  <<variant, files, loopVars, cancelled, pfi, successfulRemovals,
    failedRemovals, selection, createBackups, backups, callVars, cleanVars>>

\* noLogs.scan: runScanAndMaybeClean(true)
CacheScanCommand ==
  /\ CanInvoke("noLogs")
  /\ ncmd' = ncmd + 1
  /\ withPreview' = TRUE
  /\ hpc' = "scanning"
  /\ UNCHANGED <<scanVars, procVars, lastScan, pending, choice, written>>
  /\ UNCHANGED cacheFrame

\* noLogs.clean: runScanAndMaybeClean(false) when lastScan is empty, else
\* the cached findings go to confirmAndApplyRemoval as they are
CacheCleanCommand ==
  /\ CanInvoke("noLogs")
  /\ ncmd' = ncmd + 1
  /\ IF Len(lastScan) = 0
     THEN /\ withPreview' = FALSE
          /\ hpc' = "scanning"
          /\ UNCHANGED pending
     ELSE /\ pending' = lastScan
          /\ hpc' = "confirm"
          /\ UNCHANGED withPreview
  /\ UNCHANGED <<scanVars, procVars, lastScan, choice, written>>
  /\ UNCHANGED cacheFrame

\* the scan loop of runScanAndMaybeClean scans the text of the file
CacheScanFile ==
  /\ hpc = "scanning"
  /\ ScanFile

\* lastScan = findings; after the preview, or without findings, the command
\* ends; otherwise confirmAndApplyRemoval(findings)
CacheScanEnd ==
  /\ hpc = "scanning"
  /\ pc = "done"
  /\ lastScan' = FindingsOf(result)
  /\ IF withPreview \/ FindingsOf(result) = <<>>
     THEN /\ hpc' = "idle"
          /\ UNCHANGED pending
     ELSE /\ pending' = FindingsOf(result)
          /\ hpc' = "confirm"
  /\ pc' = "tokenize"
  /\ result' = <<>>
  /\ withPreview' = FALSE
  /\ UNCHANGED <<text, i, line, tokens, fi, statements, error>>
  /\ UNCHANGED <<procVars, ncmd, choice, written>>
  /\ UNCHANGED cacheFrame

\* the user answers the dialog; a refusal ends confirmAndApplyRemoval, on
\* "Remove All" processFile opens the document and sorts a copy of the
\* entry's occurrences
CacheConfirm ==
  /\ hpc = "confirm"
  /\ \E c \in {"Remove All", "Cancel", "dismissed"} :
       IF Declined(c)
       THEN /\ hpc' = "idle"
            /\ pending' = <<>>
            /\ UNCHANGED <<pc, doc, stored, sorted, choice>>
       ELSE /\ hpc' = "removing"
            /\ choice' = c
            /\ pc' = "process"
            /\ doc' = text
            /\ stored' = pending[1].occurrences
            /\ sorted' = SortOccurrences(pending[1].occurrences)
            /\ UNCHANGED pending
  /\ si' = 0
  /\ edits' = <<>>
  /\ UNCHANGED <<text, i, line, tokens, fi, statements, result, error, run, applied>>
  /\ UNCHANGED <<ncmd, lastScan, written>>
  /\ UNCHANGED <<withPreview, cacheFrame>>

\* applyEdit and doc.save() of processFile, then the end of
\* confirmAndApplyRemoval: lastScan = [] when something was removed
CacheApply ==
  /\ hpc = "removing"
  /\ pc = "process"
  /\ ~(si < Len(sorted))
  /\ IF EditsOverlap(doc, edits)
     THEN /\ applied' = FALSE
          /\ UNCHANGED <<text, written, lastScan>>
     ELSE /\ applied' = TRUE
          /\ text' = EditedText(doc, edits)
          /\ written' = written \cup {0}
          /\ lastScan' = <<>>
  /\ hpc' = "idle"
  /\ pc' = "tokenize"
  /\ doc' = <<>>
  /\ stored' = <<>>
  /\ sorted' = <<>>
  /\ si' = 0
  /\ edits' = <<>>
  /\ pending' = <<>>
  /\ choice' = "none"
  /\ UNCHANGED <<i, line, tokens, fi, statements, result, error, run, ncmd>>
  /\ UNCHANGED <<withPreview, cacheFrame>>

\* between two commands the user changes the text of the file and saves it
UserEdit ==
  /\ hpc = "idle"
  /\ ncmd < MaxCommands
  /\ \E t \in CacheInputs :
       /\ t # text
       /\ text' = t
  /\ UNCHANGED <<pc, i, line, tokens, fi, statements, result, error>>
  /\ UNCHANGED <<procVars, hpc, ncmd, lastScan, pending, choice, written>>
  /\ UNCHANGED <<withPreview, cacheFrame>>

CacheNext ==
  \/ CacheScanCommand
  \/ CacheCleanCommand
  \/ CacheScanFile
  \/ CacheScanEnd
  \/ CacheConfirm
  \/ RemovalStep
  \/ CacheApply
  \/ UserEdit

CacheSpec == CacheInit /\ [][CacheNext]_vars

\* processFile is working on the opened document
Removing == hpc = "removing" /\ pc = "process"

\* C33 - No stale offsets: every occurrence whose removal noLogs.clean
\* computes is an occurrence of the text the document has when it is opened
\* for the removal.
C33_NoStale ==
  Removing =>
    LET now == scanConsoleLogsInText(doc)
    IN  \A k \in 1..Len(sorted) : \E n \in 1..Len(now) : now[n] = sorted[k]

--------------------------------------------------------------------------
(* The life of lastScan *)

\* the number of occurrences in the entries fs[1..n]
RECURSIVE OccurrencesIn(_, _)
OccurrencesIn(fs, n) ==
  IF n = 0 THEN 0 ELSE OccurrencesIn(fs, n - 1) + fs[n].occurrences

\* the removal pass has handled every entry, and one of them did not fail
SomeFileSucceeded == failedRemovals < OccurrencesIn(pending, Len(pending))

\* the scan loop ends: lastScan becomes the findings of the scan
C34_ScanEnds ==
  (hpc = "scanning" /\ hpc' # "scanning") => lastScan' = findings

\* the removal pass ends: lastScan is emptied if a file was processed with
\* success, and kept if every file failed
C34_PassEnds ==
  (hpc = "removing" /\ hpc' # "removing") =>
    lastScan' = IF SomeFileSucceeded THEN <<>> ELSE lastScan

\* the user does not answer "Remove All": nothing is removed and lastScan
\* is kept
C34_Cancelled ==
  (hpc = "confirm" /\ choice' # "Remove All") =>
    /\ hpc' = "idle"
    /\ lastScan' = lastScan
    /\ written' = written

\* lastScan changes at the end of a scan and at the end of a pass only
C34_OnlyThen ==
  lastScan' # lastScan =>
    \/ hpc = "scanning" /\ hpc' # "scanning"
    \/ hpc = "removing" /\ hpc' # "removing"

\* the entries handed to confirmAndApplyRemoval hold at least one
\* occurrence each
C34_Entries ==
  hpc \in {"confirm", "removing"} =>
    \A n \in 1..Len(pending) : pending[n].occurrences > 0

\* C34 - lastScan lifecycle: lastScan becomes the findings of every scan
\* that runs to its end (the empty list when nothing was found); after a
\* removal pass it is emptied exactly when at least one file was processed
\* with success; it is left as it is when the user cancels the confirmation
\* and when every file of the pass fails.
C34_Lifecycle ==
  /\ [](C34_Entries)
  /\ [][C34_ScanEnds /\ C34_PassEnds /\ C34_Cancelled /\ C34_OnlyThen]_vars

\* a pass in which one file failed and one succeeded has emptied lastScan
C34_Witness ==
  /\ variant = "noLogs"
  /\ hpc = "idle"
  /\ choice = "Remove All"
  /\ successfulRemovals > 0
  /\ failedRemovals > 0
  /\ lastScan = <<>>

--------------------------------------------------------------------------
(* The line cleaner of src/src/extension.ts: JavaScript string primitives   *)

\* s.includes(pat), for a pattern that is not empty
Includes(s, pat) ==
  \E p \in 0..(Len(s) - Len(pat)) : Slice(s, p, p + Len(pat)) = pat

\* s starts with pat
StartsWith(s, pat) == Len(s) >= Len(pat) /\ Slice(s, 0, Len(pat)) = pat

\* s.trimEnd()
TrimEnd(s) ==
  LET solid == {p \in 1..Len(s) : ~IsSpace(s[p])}
  IN  IF solid = {} THEN <<>> ELSE SubSeq(s, 1, SetMax(solid))

\* the lower-case form of a character
LowerChar(c) ==
  CASE
       c = "A" -> "a"
    [] c = "B" -> "b"
    [] c = "C" -> "c"
    [] c = "D" -> "d"
    [] c = "E" -> "e"
    [] c = "F" -> "f"
    [] c = "G" -> "g"
    [] c = "H" -> "h"
    [] c = "I" -> "i"
    [] c = "J" -> "j"
    [] c = "K" -> "k"
    [] c = "L" -> "l"
    [] c = "M" -> "m"
    [] c = "N" -> "n"
    [] c = "O" -> "o"
    [] c = "P" -> "p"
    [] c = "Q" -> "q"
    [] c = "R" -> "r"
    [] c = "S" -> "s"
    [] c = "T" -> "t"
    [] c = "U" -> "u"
    [] c = "V" -> "v"
    [] c = "W" -> "w"
    [] c = "X" -> "x"
    [] c = "Y" -> "y"
    [] c = "Z" -> "z"
    [] OTHER -> c

\* s.toLowerCase()
ToLowerCase(s) == [k \in 1..Len(s) |-> LowerChar(s[k])]

\* content.split('\n')
SplitLines(s) == [k \in 1..LineCount(s) |-> lineAt(s, k - 1).text]

\* lines.join('\n')
RECURSIVE JoinLines(_)
JoinLines(ls) ==
  IF ls = <<>> THEN <<>>
  ELSE IF Len(ls) = 1 THEN ls[1]
  ELSE ls[1] \o <<"\n">> \o JoinLines(Tail(ls))

\* the elements of s at the positions of the set kept, in their order
KeepAt(s, kept) ==
  LET Nth(q) == CHOOSE p \in kept : Cardinality({r \in kept : r <= p}) = q
  IN  [q \in 1..Cardinality(kept) |-> s[Nth(q)]]

--------------------------------------------------------------------------
(* isProtectedComment *)

\* /https?:\/\/|ftp:\/\/|file:\/\//
UrlSchemes ==
  { <<"h","t","t","p",":","/","/">>,
    <<"h","t","t","p","s",":","/","/">>,
    <<"f","t","p",":","/","/">>,
    <<"f","i","l","e",":","/","/">> }

\* the words that protect a comment, looked for in its lower-case form
ProtectedWords ==
  { <<"c","o","n","f","i","g">>,
    <<"s","e","t","t","i","n","g">>,
    <<"o","p","t","i","o","n">>,
    <<"p","a","r","a","m","e","t","e","r">>,
    <<"v","a","l","u","e">>,
    <<"a","p","i">>,
    <<"e","n","d","p","o","i","n","t">>,
    <<"u","r","l">>,
    <<"u","r","i">>,
    <<"e","s","l","i","n","t">>,
    <<"p","r","e","t","t","i","e","r">>,
    <<"t","y","p","e","s","c","r","i","p","t">>,
    <<"@","t","s","-">>,
    <<"j","s","h","i","n","t">>,
    <<"j","s","l","i","n","t">>,
    <<"i","s","t","a","n","b","u","l">>,
    <<"c","o","v","e","r","a","g","e">>,
    <<"w","e","b","p","a","c","k">>,
    <<"r","o","l","l","u","p">>,
    <<"l","i","c","e","n","s","e">>,
    <<"c","o","p","y","r","i","g","h","t">>,
    <<"@","a","u","t","h","o","r">>,
    <<"@","v","e","r","s","i","o","n">>,
    <<"t","o","d","o",":">>,
    <<"f","i","x","m","e",":">>,
    <<"h","a","c","k",":">>,
    <<"n","o","t","e",":">>,
    <<"@","p","a","r","a","m">>,
    <<"@","r","e","t","u","r","n">>,
    <<"@","t","h","r","o","w","s">>,
    <<"@","s","e","e">>,
    <<"@","s","i","n","c","e">>,
    <<"@","d","e","p","r","e","c","a","t","e","d">>,
    <<"i","m","p","o","r","t","a","n","t">>,
    <<"c","r","i","t","i","c","a","l">>,
    <<"w","a","r","n","i","n","g">>,
    <<"d","a","n","g","e","r">>,
    <<"c","a","u","t","i","o","n">>,
    <<"a","t","t","e","n","t","i","o","n">>,
    <<"n","o","t","i","c","e">> }

isProtectedComment(commentText) ==
  \/ \E u \in UrlSchemes : Includes(commentText, u)
  \/ \E w \in ProtectedWords : Includes(ToLowerCase(commentText), w)

--------------------------------------------------------------------------
(* parseLineSafely and its helpers *)

\* line.includes('"') || line.includes("'") || line.includes(backtick)
containsStringLiterals(ln) ==
  \E k \in 1..Len(ln) : ln[k] \in {"\"", "'", Backtick}

\* the method names of the pattern that recognises a console statement
StatementMethods ==
  { <<"l","o","g">>,
    <<"w","a","r","n">>,
    <<"e","r","r","o","r">>,
    <<"i","n","f","o">>,
    <<"d","e","b","u","g">>,
    <<"t","r","a","c","e">>,
    <<"c","l","e","a","r">>,
    <<"c","o","u","n","t">>,
    <<"t","i","m","e">>,
    <<"t","i","m","e","E","n","d">>,
    <<"g","r","o","u","p">>,
    <<"g","r","o","u","p","E","n","d">>,
    <<"a","s","s","e","r","t">>,
    <<"t","a","b","l","e">> }

\* /^console\.(log|warn|...|table)\s*\(/ matches trimmed
IsConsoleStatement(trimmed) ==
  \E m \in StatementMethods :
    LET head == CONSOLE \o <<".">> \o m
    IN  /\ StartsWith(trimmed, head)
        /\ \E p \in Len(head)..(Len(trimmed) - 1) :
             /\ CharAt(trimmed, p) = "("
             /\ \A q \in Len(head)..(p - 1) : IsSpace(CharAt(trimmed, q))

\* the characters after which a "/" is taken for the start of a regular
\* expression
RegexPrefix == {"=", "(", "[", "{", ",", ":", ";", "!"}

\* before === '' or its last character is one of RegexPrefix
MayStartRegex(ln, k) ==
  LET before == Trim(Slice(ln, 0, k))
  IN  before = <<>> \/ before[Len(before)] \in RegexPrefix

\* the index the inner loop leaves in i: the first "/" after k that no
\* backslash precedes, or k when there is none
SkipRegex(ln, k) ==
  LET closing == {j \in (k + 1)..(Len(ln) - 1) :
                    CharAt(ln, j) = "/" /\ CharAt(ln, j - 1) # "\\"}
  IN  IF closing = {} THEN k ELSE SetMin(closing)

\* the quote flags at the entry of a loop over a line
NoQuotes == [sq |-> FALSE, dq |-> FALSE, bt |-> FALSE, escaped |-> FALSE]

\* the quote flags after the character c has been looked at
QuotesAfter(q, c) ==
  IF c = "\"" /\ ~q.sq /\ ~q.bt THEN [q EXCEPT !.dq = ~q.dq]
  ELSE IF c = "'" /\ ~q.dq /\ ~q.bt THEN [q EXCEPT !.sq = ~q.sq]
  ELSE IF c = Backtick /\ ~q.dq /\ ~q.sq THEN [q EXCEPT !.bt = ~q.bt]
  ELSE q

\* no string is open
Outside(q) == ~q.sq /\ ~q.dq /\ ~q.bt

\* the loop of findEndOfLineCommentSafely from index k on
RECURSIVE FindEndComment(_, _, _)
FindEndComment(ln, k, q) ==
  IF ~(k < Len(ln) - 1) THEN [found |-> FALSE, commentText |-> <<>>]
  ELSE LET char     == CharAt(ln, k)
           nextChar == CharAt(ln, k + 1)
           q2       == QuotesAfter(q, char)
       IN  IF q.escaped THEN FindEndComment(ln, k + 1, [q EXCEPT !.escaped = FALSE])
           ELSE IF char = "\\" THEN FindEndComment(ln, k + 1, [q EXCEPT !.escaped = TRUE])
           ELSE IF q2 = q /\ char = "/" /\ Outside(q) /\ nextChar # "/"
                   /\ MayStartRegex(ln, k)
             THEN FindEndComment(ln, SkipRegex(ln, k) + 1, q)
           ELSE IF char = "/" /\ nextChar = "/" /\ Outside(q2)
             THEN [found |-> TRUE, commentText |-> Trim(Slice(ln, k, Len(ln)))]
           ELSE FindEndComment(ln, k + 1, q2)

findEndOfLineCommentSafely(ln) == FindEndComment(ln, 0, NoQuotes)

\* the loop of removeEndOfLineCommentSafely from index k on
RECURSIVE RemoveEndComment(_, _, _)
RemoveEndComment(ln, k, q) ==
  IF ~(k < Len(ln) - 1) THEN [cleanedLine |-> ln, wasRemoved |-> FALSE]
  ELSE LET char     == CharAt(ln, k)
           nextChar == CharAt(ln, k + 1)
           q2       == QuotesAfter(q, char)
       IN  IF q.escaped THEN RemoveEndComment(ln, k + 1, [q EXCEPT !.escaped = FALSE])
           ELSE IF char = "\\" THEN RemoveEndComment(ln, k + 1, [q EXCEPT !.escaped = TRUE])
           ELSE IF q2 = q /\ char = "/" /\ Outside(q) /\ MayStartRegex(ln, k)
             THEN RemoveEndComment(ln, SkipRegex(ln, k) + 1, q)
           ELSE IF char = "/" /\ nextChar = "/" /\ Outside(q2)
                   /\ ~isProtectedComment(Slice(ln, k, Len(ln)))
             THEN [cleanedLine |-> TrimEnd(Slice(ln, 0, k)), wasRemoved |-> TRUE]
           ELSE RemoveEndComment(ln, k + 1, q2)

removeEndOfLineCommentSafely(ln) == RemoveEndComment(ln, 0, NoQuotes)

\* an entry of the comments parseLineSafely returns
CommentItem(n, content, type, multiline) ==
  [line |-> n, content |-> content, type |-> type, multiline |-> multiline]

parseLineSafely(ln, lineNumber) ==
  LET trimmed == Trim(ln)
      endCommentResult == findEndOfLineCommentSafely(ln)
  IN  IF StartsWith(trimmed, <<"/", "/">>) /\ ~containsStringLiterals(ln)
        THEN [consoleLogs |-> <<>>,
              comments |-> <<CommentItem(lineNumber, trimmed, "single", FALSE)>>]
      ELSE IF StartsWith(trimmed, <<"/", "*">>) /\ ~containsStringLiterals(ln)
        THEN [consoleLogs |-> <<>>,
              comments |-> <<CommentItem(lineNumber, trimmed, "block",
                                         ~Includes(trimmed, <<"*", "/">>))>>]
      ELSE [consoleLogs |->
              IF IsConsoleStatement(trimmed) /\ ~containsStringLiterals(ln)
              THEN <<[line |-> lineNumber, content |-> trimmed]>>
              ELSE <<>>,
            comments |->
              IF endCommentResult.found
                 /\ ~isProtectedComment(endCommentResult.commentText)
              THEN <<CommentItem(lineNumber, endCommentResult.commentText,
                                 "single", FALSE)>>
              ELSE <<>>]

--------------------------------------------------------------------------
(* findSafeTargets *)

\* the locals of findSafeTargets at the entry of its loop
TargetsEntry ==
  [inMultiLineComment  |-> FALSE,
   inMultiLineString   |-> FALSE,
   multiLineStringChar |-> <<>>,
   commentStartLine    |-> 0,
   commentBuffer       |-> <<>>,
   safeConsoleLogs     |-> <<>>,
   safeComments        |-> <<>>]

\* an entry of safeComments
SafeComment(n, content, type) == [line |-> n, content |-> content, type |-> type]

\* (line.match(/backtick/g) || []).length
BacktickCount(ln) == Cardinality({k \in 1..Len(ln) : ln[k] = Backtick})

\* safeItems.comments.forEach(...): parseLineSafely returns one comment at
\* most
AddComments(st, comments, lineNumber) ==
  IF comments = <<>> THEN st
  ELSE LET item == comments[1]
       IN  IF item.type = "block" /\ item.multiline
             THEN [st EXCEPT !.inMultiLineComment = TRUE,
                             !.commentStartLine = lineNumber,
                             !.commentBuffer = item.content \o <<"\n">>]
           ELSE IF ~isProtectedComment(item.content)
             THEN [st EXCEPT !.safeComments =
                               Append(@, SafeComment(lineNumber, item.content, item.type))]
           ELSE st

\* one iteration of the loop of findSafeTargets, on line ln with number
\* lineNumber
TargetsOfLine(st, ln, lineNumber) ==
  IF st.inMultiLineComment
    THEN LET buffer == st.commentBuffer \o ln \o <<"\n">>
         IN  IF Includes(ln, <<"*", "/">>)
             THEN [st EXCEPT !.inMultiLineComment = FALSE,
                             !.safeComments =
                               IF ~isProtectedComment(buffer)
                               THEN Append(@, SafeComment(st.commentStartLine,
                                                          Trim(buffer), "block"))
                               ELSE @,
                             !.commentBuffer = <<>>]
             ELSE [st EXCEPT !.commentBuffer = buffer]
  ELSE IF st.inMultiLineString
    THEN IF Includes(ln, st.multiLineStringChar)
         THEN [st EXCEPT !.inMultiLineString = FALSE, !.multiLineStringChar = <<>>]
         ELSE st
  ELSE LET safeItems == parseLineSafely(ln, lineNumber)
           logged    == [st EXCEPT !.safeConsoleLogs = @ \o safeItems.consoleLogs]
           commented == AddComments(logged, safeItems.comments, lineNumber)
       IN  IF BacktickCount(ln) % 2 = 1
           THEN [commented EXCEPT !.inMultiLineString = TRUE,
                                  !.multiLineStringChar = <<Backtick>>]
           ELSE commented

\* the loop of findSafeTargets over lines[k..]
RECURSIVE TargetsLoop(_, _, _)
TargetsLoop(lines, k, st) ==
  IF k > Len(lines) THEN st
  ELSE TargetsLoop(lines, k + 1, TargetsOfLine(st, lines[k], k))

findSafeTargets(content) ==
  LET st == TargetsLoop(SplitLines(content), 1, TargetsEntry)
  IN  [safeConsoleLogs |-> st.safeConsoleLogs, safeComments |-> st.safeComments]

--------------------------------------------------------------------------
(* cleanContentUltraSafe *)

\* the locals of cleanContentUltraSafe at the entry of its loop
CleanEntry ==
  [cleanedLines             |-> <<>>,
   consoleLogsRemoved       |-> 0,
   commentsRemoved          |-> 0,
   inMultiLineComment       |-> FALSE,
   skipLinesUntilCommentEnd |-> FALSE]

\* the flags after the test for the end of a multi-line comment
AfterCommentEnd(st, ln) ==
  IF st.inMultiLineComment /\ Includes(ln, <<"*", "/">>)
  THEN [st EXCEPT !.inMultiLineComment = FALSE, !.skipLinesUntilCommentEnd = FALSE]
  ELSE st

\* one iteration of the loop of cleanContentUltraSafe
CleanLine(st, ln, remove) ==
  LET st1     == AfterCommentEnd(st, ln)
      trimmed == Trim(ln)
      plain   == ~containsStringLiterals(ln)
      ended   == removeEndOfLineCommentSafely(ln)
  IN  IF st.inMultiLineComment /\ st1.skipLinesUntilCommentEnd
        THEN [st1 EXCEPT !.commentsRemoved = @ + 1]
      ELSE IF remove /\ StartsWith(trimmed, <<"/", "/">>) /\ plain
              /\ ~isProtectedComment(ln)
        THEN [st1 EXCEPT !.commentsRemoved = @ + 1]
      ELSE IF remove /\ StartsWith(trimmed, <<"/", "*">>) /\ plain
              /\ ~isProtectedComment(ln)
        THEN IF Includes(trimmed, <<"*", "/">>)
             THEN [st1 EXCEPT !.commentsRemoved = @ + 1]
             ELSE [st1 EXCEPT !.inMultiLineComment = TRUE,
                              !.skipLinesUntilCommentEnd = TRUE,
                              !.commentsRemoved = @ + 1]
      ELSE IF IsConsoleStatement(trimmed) /\ plain
        THEN [st1 EXCEPT !.consoleLogsRemoved = @ + 1]
      ELSE IF remove /\ ~st1.inMultiLineComment /\ ended.wasRemoved
        THEN [st1 EXCEPT !.cleanedLines = Append(@, ended.cleanedLine),
                         !.commentsRemoved = @ + 1]
      ELSE [st1 EXCEPT !.cleanedLines = Append(@, ln)]

\* the loop of cleanContentUltraSafe over lines[k..]
RECURSIVE CleanLoop(_, _, _, _)
CleanLoop(lines, k, st, remove) ==
  IF k > Len(lines) THEN st
  ELSE CleanLoop(lines, k + 1, CleanLine(st, lines[k], remove), remove)

\* the white space that holds position p of s, as a set of positions
SpaceRun(s, p) ==
  {q \in 1..Len(s) :
     \A r \in (IF q < p THEN q ELSE p)..(IF q < p THEN p ELSE q) : IsSpace(s[r])}

\* .replace(/\n\s*\n\s*\n+/g, '\n\n'): of a stretch of white space with three
\* line breaks or more, the first and the last line break stay and what is
\* between them goes
CollapseBlankLines(s) ==
  LET Breaks(p) == {q \in SpaceRun(s, p) : s[q] = "\n"}
      gone == {p \in 1..Len(s) :
                 /\ IsSpace(s[p])
                 /\ Cardinality(Breaks(p)) >= 3
                 /\ SetMin(Breaks(p)) < p
                 /\ p < SetMax(Breaks(p))}
  IN  KeepAt(s, (1..Len(s)) \ gone)

\* .replace(/[ \t]+$/gm, ''): spaces and tabs at the end of a line go
StripTrailingSpaces(s) ==
  LET gone == {p \in 1..Len(s) :
                 /\ s[p] \in {" ", "\t"}
                 /\ \A q \in p..(LineEndOf(s, p - 1)) : s[q] \in {" ", "\t"}}
  IN  KeepAt(s, (1..Len(s)) \ gone)

\* content.endsWith('\n')
EndsWithBreak(s) == Len(s) > 0 /\ s[Len(s)] = "\n"

cleanContentUltraSafe(content, remove) ==
  LET st      == CleanLoop(SplitLines(content), 1, CleanEntry, remove)
      joined  == JoinLines(st.cleanedLines)
      tidied  == StripTrailingSpaces(CollapseBlankLines(joined))
  IN  [content |->
         IF EndsWithBreak(content) /\ ~EndsWithBreak(tidied)
         THEN tidied \o <<"\n">>
         ELSE tidied,
       consoleLogsRemoved |-> st.consoleLogsRemoved,
       commentsRemoved    |-> st.commentsRemoved]

--------------------------------------------------------------------------
(* The cleaner at work on one file: scanFile reads the file and calls
   findSafeTargets, cleanupFile reads it and calls cleanContentUltraSafe.
   text is the content both read. *)

\* lines of a file
MaxCleanLines == 3

\* the lines the files are made of
CleanLines ==
  { <<"/", "*">>,
    <<"*", " ", "@", "s", "e", "e">>,
    <<"*", "/">>,
    <<"x", ";">>,
    CALL,
    <<"c","o","n","s","o","l","e",".","l","o","g","(">>,
    <<"x", ")">>,
    <<Backtick>>,
    <<"/", "/", " ", "c">>,
    <<>> }

CleanInputs ==
  {JoinLines(ls) : ls \in UNION {[1..n -> CleanLines] : n \in 1..MaxCleanLines}}

CleanInit ==
  /\ text \in CleanInputs
  /\ ScanInit
  /\ ProcInit
  /\ HostOff
  /\ NoCalls
  /\ removeComments \in BOOLEAN
  /\ cpc = "start"
  /\ targets = NoTargets
  /\ cleaned = NothingCleaned

\* scanFile
ScanContent ==
  /\ cpc = "start"
  /\ targets' = findSafeTargets(text)
  /\ cpc' = "scanned"
  /\ UNCHANGED <<scanVars, procVars, hostVars, callVars, removeComments, cleaned>>

\* cleanupFile
CleanContent ==
  /\ cpc = "scanned"
  /\ cleaned' = cleanContentUltraSafe(text, removeComments)
  /\ cpc' = "cleaned"
  /\ UNCHANGED <<scanVars, procVars, hostVars, callVars, removeComments, targets>>

CleanNext == ScanContent \/ CleanContent

CleanSpec == CleanInit /\ [][CleanNext]_vars

--------------------------------------------------------------------------
(* C35 *)

\* the comments of s that are closed, as pairs of offsets <<a, b>>: the
\* comment is Slice(s, a, b), delimiters included
CommentsOf(s) ==
  LET modes == Ref(s).modes
      In(p) == modes[p + 1] \in {"line", "block"}
  IN  {ab \in (0..Len(s)) \X (0..Len(s)) :
         /\ ab[1] + 2 <= ab[2]
         /\ \A p \in ab[1]..(ab[2] - 1) : In(p)
         /\ ab[1] = 0 \/ ~In(ab[1] - 1)
         /\ ab[2] = Len(s) \/ ~In(ab[2])
         /\ \/ modes[ab[1] + 1] = "line"
            \/ Slice(s, ab[2] - 2, ab[2]) = <<"*", "/">>}

\* the comments of s that isProtectedComment protects, as texts
ProtectedComments(s) ==
  {Slice(s, ab[1], ab[2]) : ab \in {cd \in CommentsOf(s) :
                                      isProtectedComment(Slice(s, cd[1], cd[2]))}}

\* C35: every comment of the content whose full text isProtectedComment
\* protects is still in the content cleanContentUltraSafe returns, whole,
\* a block comment of several lines with its marker on a later line included
C35_ProtectedKept ==
  cpc = "cleaned" =>
    \A c \in ProtectedComments(text) : Includes(cleaned.content, c)

--------------------------------------------------------------------------
(* C36 *)

\* offsets of s where a block comment is closed that was never opened
StrayCloses(s) ==
  LET modes == Ref(s).modes
  IN  {p \in 0..(Len(s) - 2) :
         /\ Slice(s, p, p + 2) = <<"*", "/">>
         /\ modes[p + 1] = "code"}

\* C36: a block comment that cleanContentUltraSafe removes goes with all its
\* lines, the one that closes it included: a content where every closing
\* delimiter has its opening one is cleaned to a content of that kind
C36_NoStrayClose ==
  cpc = "cleaned" =>
    (StrayCloses(text) = {} => StrayCloses(cleaned.content) = {})

--------------------------------------------------------------------------
(* C37 *)

\* the lines of s, by number from 0, that hold a whole console call from
\* their first character that is not white space to its closing parenthesis
\* and that do not lie in a template literal
StandaloneLines(s) ==
  LET lines == SplitLines(s)
  IN  {n \in 0..(Len(lines) - 1) :
         LET ln    == lines[n + 1]
             found == scanConsoleLogsInText(ln)
         IN  /\ IsConsoleStatement(Trim(ln))
             /\ found # <<>>
             /\ IsBlank(Slice(ln, 0, found[1].startIndex))
             /\ ModeAt(s, LineStart(s, n)) \notin {"tpl", "expr"}}

\* C37: cleanContentUltraSafe removes as console statements only lines that
\* hold the whole call and lie outside every template literal
C37_Standalone ==
  cpc = "cleaned" =>
    cleaned.consoleLogsRemoved <= Cardinality(StandaloneLines(text))

--------------------------------------------------------------------------
(* C38 *)

\* C38: the scan reports as many console statements as the cleanup removes
\* from the same content
C38_Agree ==
  cpc = "cleaned" =>
    Len(targets.safeConsoleLogs) = cleaned.consoleLogsRemoved

--------------------------------------------------------------------------
(* Cancellation.  The loops of scanWorkspace and cleanupWorkspace run        *)
(* without giving up control inside an iteration; the loop of applyCleanup   *)
(* awaits the file system three times in an iteration, and the request to    *)
(* cancel can come while it waits.                                           *)

\* applyCleanup: progress.report and await fs.readFile of file bi; a file
\* that cannot be read is passed over
RReadStep_IgnoresToken ==
  /\ hpc = "rcleaning"
  /\ bi < Len(files)
  /\ reports' = Append(reports, bi)
  /\ IF FileAt(bi).opens
     THEN /\ hpc' = "rsaving"
          /\ UNCHANGED bi
     ELSE /\ bi' = bi + 1
          /\ UNCHANGED hpc
  /\ UNCHANGED <<files, ncmd, withPreview, findings, total, processedFiles, skippedFiles,
                 errors, cancelled, lastScan, removalVars, written>>
  /\ UNCHANGED hostFrame

\* applyCleanup: if (token.isCancellationRequested) break; otherwise
\* progress.report and await fs.readFile of file bi; a file that cannot be
\* read is passed over
RReadStep ==
  /\ hpc = "rcleaning"
  /\ bi < Len(files)
  /\ ~cancelled
  /\ reports' = Append(reports, bi)
  /\ IF FileAt(bi).opens
     THEN /\ hpc' = "rsaving"
          /\ UNCHANGED bi
     ELSE /\ bi' = bi + 1
          /\ UNCHANGED hpc
  /\ UNCHANGED <<files, ncmd, withPreview, findings, total, processedFiles, skippedFiles,
                 errors, cancelled, lastScan, removalVars, written>>
  /\ UNCHANGED hostFrame

\* applyCleanup: the content read is written to the backup directory; saved
\* is whether that succeeded, and a failure is only logged
RSaveStep ==
  /\ hpc = "rsaving"
  /\ \E saved \in BOOLEAN :
       backups' = IF saved THEN backups \cup {bi} ELSE backups
  /\ hpc' = "rwriting"
  /\ UNCHANGED <<files, ncmd, withPreview, loopVars, cancelled, lastScan, removalVars, written>>
  /\ UNCHANGED <<scanVars, procVars, callVars, cleanVars, variant, selection, createBackups>>

\* applyCleanup: the cleaned content is written when it differs; wrote is
\* whether that write succeeded; changes.push and the next iteration
RWriteStep ==
  /\ hpc = "rwriting"
  /\ \E wrote \in BOOLEAN :
       IF wrote THEN CleanupFile(bi) ELSE UNCHANGED <<written, files>>
  /\ bi' = bi + 1
  /\ hpc' = "rcleaning"
  /\ UNCHANGED <<ncmd, withPreview, findings, total, processedFiles, skippedFiles,
                 errors, reports, cancelled, lastScan, removalVars>>
  /\ UNCHANGED hostFrame

\* the user cancels the progress notification of applyCleanup while the
\* loop waits for the file system
RCancelAwaited ==
  /\ hpc \in {"rsaving", "rwriting"}
  /\ ~cancelled
  /\ cancelled' = TRUE
  /\ UNCHANGED <<files, hpc, ncmd, withPreview, loopVars, lastScan, removalVars, written>>
  /\ UNCHANGED hostFrame

CancelNext ==
  \/ XScanCommand
  \/ XCancel
  \/ XScanStep
  \/ XScanExit
  \/ XScanReturn
  \/ XCleanupCommand
  \/ XConfirmAllAnswer
  \/ XCleanStep
  \/ XCleanExit
  \/ ApplyCleanup
  \/ RCancel
  \/ RCancelAwaited
  \/ RReadStep
  \/ RSaveStep
  \/ RWriteStep
  \/ RCleanExit

CancelSpec == BackupInit /\ [][CancelNext]_vars

\* a loop over the files of the workspace is running
InFileLoop == hpc \in {"xscanning", "xcleaning", "rcleaning", "rsaving", "rwriting"}

\* the loop of applyCleanup is inside the iteration of file bi
MidFile == hpc \in {"rsaving", "rwriting"}

\* C39 as first stated: once cancellation has been requested during a
\* workspace scan or cleanup, nothing more is read, backed up or written,
\* and the results stay as they were
C39_NothingAfterRequest ==
  [][(cancelled /\ InFileLoop) =>
       /\ reports' = reports
       /\ findings' = findings
       /\ backups' = backups
       /\ written' = written
       /\ files' = files]_vars

\* the files a loop has begun are the first ones of the list, in order
BegunPrefix ==
  InFileLoop =>
    /\ reports = [k \in 1..Len(reports) |-> k - 1]
    /\ Len(reports) = IF MidFile THEN bi + 1 ELSE bi

\* after the request no file is begun and the results recorded stay; only
\* the file applyCleanup was working on at the request is still backed up
\* and written
C39_Step ==
  (cancelled /\ InFileLoop) =>
    /\ reports' = reports
    /\ findings' = findings
    /\ (backups' # backups \/ written' # written \/ files' # files) =>
         /\ MidFile
         /\ backups' \subseteq backups \cup {bi}
         /\ written' \subseteq written \cup {bi}
         /\ \A k \in 0..(Len(files) - 1) : k # bi => FileAt(k) = files'[k + 1]

\* C39, amended: once cancellation has been requested during a workspace
\* scan or cleanup, no file that was not begun before the request is read,
\* backed up or written; the file in work at the request is finished, and
\* the loop ends with the results of the files begun, a prefix of the list
C39_NoFileBegunAfterRequest == [](BegunPrefix) /\ [][C39_Step]_vars

\* applyCleanup was cancelled while it waited for the file system, has
\* written the file it was working on and has left the rest of the list
C39_Witness ==
  /\ variant = "regexCleanup"
  /\ cancelled
  /\ hpc = "idle"
  /\ Len(reports) >= 1
  /\ Len(reports) < Len(files)
  /\ (Len(reports) - 1) \in written
  /\ (Len(reports) - 1) \in backups

====
